---- MODULE Spec2Model ----
(***************************************************************************)
(* Model of the Polymarket trading agent (skills/polymarket-trader).       *)
(*                                                                         *)
(* agent.py: PolymarketTrader (balance, stop-loss and capacity guards,     *)
(* market scan, opportunity detection, Kelly sizing, rate limiter, order   *)
(* submission, positions file, trade log, scan log).                       *)
(* position_tracker.py: Position and PositionTracker (add, remove, update  *)
(* of prices, unrealized P&L, save).                                       *)
(*                                                                         *)
(* Numbers.  Python floats are modelled by exact rationals on a grid:      *)
(*   - a probability or price is the integer n standing for n / PD;        *)
(*   - a Kelly fraction is the integer n standing for n / FD, FD = 4 * PD  *)
(*     (the quarter-Kelly multiplier 0.25 divides the price grid by 4);    *)
(*   - money is the integer n standing for n / FD dollars, so that         *)
(*     bankroll (whole dollars) times a Kelly fraction is exact.           *)
(*   - time is in whole clock ticks.                                       *)
(***************************************************************************)
EXTENDS Integers, Sequences, FiniteSets, TLC

\* ------------------------------------------------------------------ bounds
\* Price grid: a price n stands for n / PD.
PD == 10
\* Stand-ins for the class attributes MAX_ORDERS_PER_MINUTE = 60 and
\* RATE_LIMIT_WINDOW = 60 (agent.py:55-56), scaled down so that the cap is
\* reached within the bounded runs.
MAX_ORDERS_PER_MINUTE == 2
RATE_LIMIT_WINDOW == 3
\* Stand-in for max_to_research = 50 (agent.py:281), scaled down likewise.
max_to_research == 2
\* The clock ticks freely up to MaxTime (a blocked sleep may pass it).
MaxTime == 4
\* Number of run_cycle invocations on the one trader object.
MaxCycles == 2

\* ----------------------------------------------------------------- helpers
FD == 4 * PD
Dollar == FD

Abs(x) == IF x < 0 THEN -x ELSE x
Min(a, b) == IF a <= b THEN a ELSE b
Max(a, b) == IF a >= b THEN a ELSE b

RECURSIVE SumSizes(_)
SumSizes(ps) == IF ps = << >> THEN 0 ELSE Head(ps).size + SumSizes(Tail(ps))

\* A faulty slice, against which the detection cap is tried: the whole list.
Take_all(s, n) == s

\* s[:n]
Take(s, n) == SubSeq(s, 1, Min(n, Len(s)))

\* ------------------------------------------------------------------ sizer
\* Two faulty sizers, against which the sizer properties are tried: one
\* forgets the max_kelly_fraction cap, the other forgets abs().
calculate_position_size_uncapped(p, max_kelly_fraction, bankroll) ==
    LET kelly == 2 * p - PD
    IN  Max(bankroll * Abs(kelly), Dollar)

calculate_position_size_signed(p, max_kelly_fraction, bankroll) ==
    LET kelly == 2 * p - PD
    IN  Max(bankroll * Min(kelly, max_kelly_fraction), Dollar)

\* The full Kelly fraction of calculate_position_size for the fair value p:
\* kelly = (p * (b + 1) - 1) / b with b = 1, as a numerator over PD.
FullKelly(p) ==
    LET b == 1
    IN  (p * (b + 1) - PD) \div b

\* calculate_position_size: p on the price grid, max_kelly_fraction on the
\* Kelly grid (n / FD), bankroll in whole dollars; result in money units.
calculate_position_size(p, max_kelly_fraction, bankroll) ==
    LET kelly == FullKelly(p)
        \* fraction_kelly = kelly * 0.25: the same numerator over FD = 4 * PD
        fraction_kelly == kelly
        position_fraction == Min(Abs(fraction_kelly), max_kelly_fraction)
        position_size == bankroll * position_fraction
    IN  Max(position_size, Dollar)

\* ------------------------------------------------------------ input domains
\* config.json documents the trader is constructed with (all six required
\* fields present; scan_interval_minutes is only logged).
\* bankroll and stop_loss_bankroll in whole dollars, mispricing_threshold on
\* the price grid, max_kelly_fraction on the Kelly grid.
Configs ==
    { [bankroll |-> 8, mispricing_threshold |-> 2, max_kelly_fraction |-> 10,
       scan_interval_minutes |-> 1, max_positions |-> 4, stop_loss_bankroll |-> 2],
      [bankroll |-> 1, mispricing_threshold |-> 2, max_kelly_fraction |-> 4,
       scan_interval_minutes |-> 1, max_positions |-> 2, stop_loss_bankroll |-> 0],
      [bankroll |-> 8, mispricing_threshold |-> 2, max_kelly_fraction |-> 10,
       scan_interval_minutes |-> 1, max_positions |-> 1, stop_loss_bankroll |-> 4] }

\* config.json as a file: absent, or holding a JSON object.
ConfigFile(document) == [exists |-> TRUE, json |-> document]
NoConfigFile == [exists |-> FALSE, json |-> [field \in {} |-> 0]]

\* Market snapshots the Quote Source lists: the question text is identified
\* with the market id; m1 is quoted at 0.5 and m2 at 0.9.
m1 == [id |-> "m1", current_price |-> 5]
m2 == [id |-> "m2", current_price |-> 9]

\* What the wallet publishers answer: an error, or a balance in money units.
\* BalanceAnswers pairs a failed or short SerenBucks lookup with a failed and
\* with a funded Polymarket lookup, and a sufficient SerenBucks balance with a
\* failed Polymarket lookup.
Failed == [ok |-> FALSE, balance |-> 0]
Balance(b) == [ok |-> TRUE, balance |-> b]
Lookups(sb, pm) == [serenbucks |-> sb, polymarket |-> pm]
BalanceAnswers ==
    { Lookups(Failed, Failed), Lookups(Failed, Balance(3 * Dollar)),
      Lookups(Balance(Dollar \div 2), Failed), Lookups(Balance(Dollar), Failed) }
\* What scan_active_markets answers: an error, or a list of markets.
Listing(ms) == [ok |-> TRUE, markets |-> ms]
ScanAnswers ==
    { [ok |-> FALSE, markets |-> << >>],
      Listing(<< >>), Listing(<< m1 >>), Listing(<< m1, m2 >>),
      Listing(<< m1, m1 >>), Listing(<< m2, m1, m1 >>) }
\* What the research publisher hands back: '' (also on error) or a summary.
ResearchAnswers == {"", "summary"}
\* What seren-models answers: an error, text that is no JSON, or a JSON
\* object with some of the fields probability, confidence, reasoning.
AllFields == {"probability", "confidence", "reasoning"}
Json(probability, confidence) ==
    [kind |-> "json", has |-> AllFields, probability |-> probability,
     confidence |-> confidence]
OracleAnswers ==
    { [kind |-> "error", has |-> {}, probability |-> 0, confidence |-> "none"],
      [kind |-> "garbage", has |-> {}, probability |-> 0, confidence |-> "none"],
      [kind |-> "json", has |-> {"probability", "confidence"}, probability |-> PD,
       confidence |-> "high"],
      Json(-1, "high"), Json(PD + 1, "high"), Json(PD, "certain"),
      Json(0, "low"), Json(6, "medium"), Json(PD, "high") }
\* What place_order answers: an exception, or a result.
GatewayAnswers == {"error", "ok"}

None == [kind |-> "None"]
\* The oracle is not asked about a market whose research came back empty.
NoAnswer == [kind |-> "none", has |-> {}, probability |-> 0, confidence |-> "none"]

\* ------------------------------------------------------------------- state
VARIABLES
    configFile,        \* config.json: whether it exists and the document in it
    SEREN_API_KEY,     \* whether the environment variable is set
    config,            \* self.config
    dry_run,           \* self.dry_run
    now,               \* datetime.utcnow(), in ticks
    order_timestamps,  \* self.order_timestamps (deque, oldest first)
    positionsFile,     \* logs/positions.json
    tradesLog,         \* logs/trades.jsonl
    scanLog,           \* logs/scan_results.jsonl
    pc,                \* where run_cycle is
    cycle_start, balances, positions, markets, opportunities,
    max_new_positions, trades_executed, trade, wait_until,
    lookups,           \* history: what the two balance lookups answered
                       \* (kept after a return at the balance test)
    mIdx, oIdx,        \* loop positions in find_opportunities / run_cycle
    cycles,            \* run_cycle invocations so far
    gatewayCalls,      \* history: the time of every place_order call
    abort,             \* history: why the current cycle returned early
    atStart,           \* history: the stores as they were at cycle start
    calls,             \* history: publisher calls made by the running cycle
    trail,             \* history: the states the current cycle went through
    scanned,           \* history: how the scan call of the cycle ended
                       \* (kept after a return at the empty-list test)
    analysed,          \* history: the market find_opportunities has just been
                       \* through, with what research and oracle answered
    answered,          \* history: what place_order answered to the last call
    loaded,            \* history: how the _load_positions call of run_cycle ended
    args, result,      \* a function of the program applied on its own
    tracker,           \* PositionTracker.positions (dict, in insertion order)
    lastCall,          \* history: the last PositionTracker call and how it ended
    ledgerOps,         \* PositionTracker calls so far
    other              \* a second trader process on the same logs directory

setup == << configFile, SEREN_API_KEY >>
locals == << cycle_start, balances, positions, markets, opportunities,
             max_new_positions, trades_executed, trade, wait_until, mIdx, oIdx >>
stores == << positionsFile, tradesLog, scanLog >>
history == << lookups, gatewayCalls, abort, atStart, calls, trail, scanned,
             analysed, answered, loaded >>
ledger == << tracker, lastCall, ledgerOps >>
aside == << args, result, ledger, other >>
vars == << setup, config, dry_run, now, order_timestamps, pc, cycles, locals, stores, history,
          aside >>

\* The locals of run_cycle, discarded when it returns.
NoBalances == [serenbucks |-> 0, polymarket |-> 0]
NoLookups == Lookups(Failed, Failed)
Returned ==
    /\ cycle_start' = 0
    /\ balances' = NoBalances
    /\ positions' = << >>
    /\ markets' = << >>
    /\ opportunities' = << >>
    /\ max_new_positions' = 0
    /\ trades_executed' = 0
    /\ trade' = None
    /\ wait_until' = 0
    /\ mIdx' = 1
    /\ oIdx' = 1

NoCalls == [scan |-> 0, research |-> 0, estimate |-> 0, gateway |-> 0]
NoFile == [exists |-> FALSE, positions |-> << >>, last_updated |-> 0]

Snapshot == [file |-> positionsFile, trades |-> Len(tradesLog),
             scans |-> Len(scanLog), gateway |-> Len(gatewayCalls)]

\* No function is being applied on its own.
Unset == [set |-> FALSE, value |-> 0]
NoArgs == [p |-> 0, max_kelly_fraction |-> 1, bankroll |-> 1]
\* A PositionTracker constructed when there is no positions file.
NoCall == [op |-> "none", outcome |-> "none", market_id |-> "none", side |-> "none",
           entry_price |-> 0, size |-> 0, prices |-> << >>, initial_bankroll |-> 0,
           returned |-> None]
NoLedger == tracker = << >> /\ lastCall = NoCall /\ ledgerOps = 0
\* A second trader process that has not run a cycle.
NoOther == [pc |-> "Idle", cycle_start |-> 0, positions |-> << >>, trades_executed |-> 0,
            cycles |-> 0, saw |-> 0]
NothingAside == args = NoArgs /\ result = Unset /\ NoLedger /\ other = NoOther

\* The files and the history before any cycle has run, with no positions
\* file yet.
Fresh(modes) ==
    /\ dry_run \in modes
    /\ now = 0
    /\ order_timestamps = << >>
    /\ positionsFile = NoFile
    /\ tradesLog = << >>
    /\ scanLog = << >>
    /\ cycle_start = 0
    /\ balances = NoBalances
    /\ lookups = NoLookups
    /\ positions = << >>
    /\ markets = << >>
    /\ opportunities = << >>
    /\ max_new_positions = 0
    /\ trades_executed = 0
    /\ trade = None
    /\ wait_until = 0
    /\ mIdx = 1
    /\ oIdx = 1
    /\ cycles = 0
    /\ gatewayCalls = << >>
    /\ abort = "none"
    /\ atStart = [file |-> NoFile, trades |-> 0, scans |-> 0, gateway |-> 0]
    /\ calls = NoCalls
    /\ trail = {}
    /\ scanned = "none"
    /\ analysed = << >>
    /\ answered = "none"
    /\ loaded = "none"

\* The trader after construction from a complete config.json.
Constructed(configs, modes) ==
    /\ config \in configs
    /\ configFile = ConfigFile(config)
    /\ SEREN_API_KEY = TRUE
    /\ Fresh(modes)
    /\ pc = "Idle"

Init == Constructed(Configs, BOOLEAN) /\ NothingAside

\* ------------------------------------------------------------- operations
\* check_balances / _get_polymarket_balance: a lookup that raises counts 0.
BalanceOf(answer) == IF answer.ok THEN answer.balance ELSE 0

\* Reading the positions file succeeds, or raises (OSError from open, or
\* json.load on a file that is being rewritten).
FileOutcomes == {"ok", "raises"}

\* _load_positions: [] when the file does not exist, and [] when reading it
\* raises.
LoadPositions(outcome) ==
    IF ~positionsFile.exists THEN << >>
    ELSE IF outcome = "raises" THEN << >>
    ELSE positionsFile.positions

\* A faulty _save_positions, against which the serialized-cycles property is
\* tried: only the last position of the list is written.
SavedFile_last(ps) ==
    [exists |-> TRUE, positions |-> SubSeq(ps, Len(ps), Len(ps)), last_updated |-> now]

\* _save_positions: rewrites the file with the list and a fresh stamp.
SavedFile(ps) == [exists |-> TRUE, positions |-> ps, last_updated |-> now]

\* A faulty stop-loss test, against which the stop-loss property is tried:
\* it lets a bankroll that sits exactly on the floor pass.
check_stop_loss_strict(outcome) ==
    LET deployed == SumSizes(LoadPositions(outcome))
        current_bankroll == config.bankroll * Dollar - deployed
    IN  current_bankroll < config.stop_loss_bankroll * Dollar

\* check_stop_loss: bankroll minus deployed capital against the floor.
check_stop_loss(outcome) ==
    LET deployed == SumSizes(LoadPositions(outcome))
        current_bankroll == config.bankroll * Dollar - deployed
    IN  current_bankroll <= config.stop_loss_bankroll * Dollar

\* scan_markets: the markets of the answer, [] when the call raises.
scan_markets(answer) == IF answer.ok THEN answer.markets ELSE << >>

\* estimate_fair_value: the parsed estimate, or None.
estimate_fair_value(answer) ==
    IF answer.kind # "json" THEN None
    ELSE IF ~(AllFields \subseteq answer.has) THEN None
    ELSE IF ~(0 <= answer.probability /\ answer.probability <= PD) THEN None
    ELSE IF answer.confidence \notin {"low", "medium", "high"} THEN None
    ELSE [kind |-> "estimate", probability |-> answer.probability,
          confidence |-> answer.confidence]

\* Two faulty loop bodies, against which the filter properties are tried: one
\* keeps low-confidence estimates, the other takes an estimate whose
\* probability is out of range at its word.
AnalyzeMarket_keeps_low(market, research, answer) ==
    LET estimate == estimate_fair_value(answer)
        edge == Abs(estimate.probability - market.current_price)
    IN  IF research = "" THEN [found |-> << >>, estimates |-> 0]
        ELSE IF estimate = None THEN [found |-> << >>, estimates |-> 1]
        ELSE IF edge >= config.mispricing_threshold
             THEN [found |-> << [market |-> market, fair_value |-> estimate.probability,
                                 current_price |-> market.current_price, edge |-> edge,
                                 confidence |-> estimate.confidence] >>,
                   estimates |-> 1]
             ELSE [found |-> << >>, estimates |-> 1]

AnalyzeMarket_unchecked(market, research, answer) ==
    LET edge == Abs(answer.probability - market.current_price)
    IN  IF research = "" THEN [found |-> << >>, estimates |-> 0]
        ELSE IF answer.kind # "json" \/ answer.confidence = "low"
             THEN [found |-> << >>, estimates |-> 1]
        ELSE IF edge >= config.mispricing_threshold
             THEN [found |-> << [market |-> market, fair_value |-> answer.probability,
                                 current_price |-> market.current_price, edge |-> edge,
                                 confidence |-> answer.confidence] >>,
                   estimates |-> 1]
             ELSE [found |-> << >>, estimates |-> 1]

\* One iteration of the loop of find_opportunities: the opportunities the
\* market adds (none or one) and the publisher calls it costs.
AnalyzeMarket(market, research, answer) ==
    LET estimate == estimate_fair_value(answer)
        fair_value == estimate.probability
        current_price == market.current_price
        edge == Abs(fair_value - current_price)
    IN  IF research = "" THEN [found |-> << >>, estimates |-> 0]
        ELSE IF estimate = None THEN [found |-> << >>, estimates |-> 1]
        ELSE IF estimate.confidence = "low" THEN [found |-> << >>, estimates |-> 1]
        ELSE IF edge >= config.mispricing_threshold
             THEN [found |-> << [market |-> market, fair_value |-> fair_value,
                                 current_price |-> current_price, edge |-> edge,
                                 confidence |-> estimate.confidence] >>,
                   estimates |-> 1]
             ELSE [found |-> << >>, estimates |-> 1]

\* place_trade, up to the dry-run return: size, side and the trade record.
TradeSide(opportunity) ==
    IF opportunity.fair_value > opportunity.current_price THEN "BUY" ELSE "SELL"

NewTrade(opportunity) ==
    [timestamp |-> now,
     dry_run |-> dry_run,
     market_id |-> opportunity.market.id,
     side |-> TradeSide(opportunity),
     size |-> calculate_position_size(opportunity.fair_value,
                                      config.max_kelly_fraction, config.bankroll),
     price |-> opportunity.current_price,
     fair_value |-> opportunity.fair_value,
     edge |-> opportunity.edge,
     confidence |-> opportunity.confidence,
     status |-> IF dry_run THEN "simulated" ELSE "open"]

\* The position run_cycle appends for an executed trade.
NewPosition(t) ==
    [market |-> t.market_id, market_id |-> t.market_id, side |-> t.side,
     entry_price |-> t.price, current_price |-> t.price, size |-> t.size,
     unrealized_pnl |-> 0, opened_at |-> t.timestamp]

\* A faulty _log_trade, against which the append-only property is tried: the
\* file is opened for writing, not for appending.
log_trade_rewrites(log, t) == << t >>

\* _log_trade: one line is appended to trades.jsonl.
log_trade(log, t) == Append(log, t)

\* A faulty pruning, against which the ordering property is tried: an `if`
\* in the place of the `while`.
Prune_one(ts, cutoff) ==
    IF ts # << >> /\ Head(ts) < cutoff THEN Tail(ts) ELSE ts

\* _check_rate_limit: popleft while the oldest timestamp is before the cutoff.
RECURSIVE Prune(_, _)
Prune(ts, cutoff) ==
    IF ts # << >> /\ Head(ts) < cutoff THEN Prune(Tail(ts), cutoff) ELSE ts

\* A faulty selection, against which the selection property is tried: every
\* opportunity found is executed.
Selected_all == opportunities

\* Another faulty selection, against which the position cap is tried: one
\* opportunity more than there is room for.
Selected_one_more == Take(opportunities, max_new_positions + 1)

\* The opportunities run_cycle executes: opportunities[:max_new_positions].
Selected == Take(opportunities, max_new_positions)

\* ----------------------------------------------------------------- actions
\* The clock advances between two steps of the single thread, at the places
\* `where`; during time.sleep it is Wake that moves the clock.
Tick(where) ==
    /\ pc \in where
    /\ now < MaxTime
    /\ now' = now + 1
    /\ UNCHANGED aside
    /\ UNCHANGED << setup, config, dry_run, order_timestamps, pc, cycles, locals, stores, history >>

\* run_cycle is invoked (external scheduling): cycle_start is taken.
StartCycle ==
    /\ pc = "Idle"
    /\ cycles < MaxCycles
    /\ cycles' = cycles + 1
    /\ pc' = "BalanceCheck"
    /\ cycle_start' = now
    /\ abort' = "none"
    /\ atStart' = Snapshot
    /\ calls' = NoCalls
    /\ trail' = {"BalanceCheck"}
    /\ lookups' = NoLookups
    /\ scanned' = "none"
    /\ UNCHANGED aside
    /\ UNCHANGED << answered, loaded, analysed, setup, config, dry_run, now, order_timestamps, stores, gatewayCalls,
                    balances, positions, markets, opportunities, max_new_positions,
                    trades_executed, trade, wait_until, mIdx, oIdx >>

\* balances = self.check_balances()
CheckBalances(answers) ==
    /\ pc = "BalanceCheck"
    /\ \E answer \in answers :
          /\ lookups' = answer
          /\ balances' = [serenbucks |-> BalanceOf(answer.serenbucks),
                          polymarket |-> BalanceOf(answer.polymarket)]
    /\ pc' = "BalanceTest"
    /\ UNCHANGED aside
    /\ UNCHANGED << answered, loaded, scanned, analysed, setup, config, dry_run, now, order_timestamps, cycles, stores,
                    gatewayCalls, abort, atStart, calls, trail,
                    cycle_start, positions, markets, opportunities,
                    max_new_positions, trades_executed, trade, wait_until, mIdx, oIdx >>

\* A faulty balance test, against which the balance property is tried: it
\* looks at the Polymarket balance.
InsufficientBalance_polymarket == balances.polymarket < Dollar

\* The balance test of run_cycle.
InsufficientBalance == balances.serenbucks < Dollar

BalanceTest ==
    /\ pc = "BalanceTest"
    /\ IF InsufficientBalance
       THEN /\ pc' = "Idle"
            /\ abort' = "balance"
            /\ trail' = trail
            /\ Returned
       ELSE /\ pc' = "StopLossCheck"
            /\ abort' = abort
            /\ trail' = trail \cup {"StopLossCheck"}
            /\ UNCHANGED locals
    /\ UNCHANGED aside
    /\ UNCHANGED << answered, loaded, scanned, analysed, lookups, setup, config, dry_run, now, order_timestamps, cycles, stores,
                    gatewayCalls, atStart, calls >>

StopLossCheck(reads) ==
    /\ pc = "StopLossCheck"
    /\ \E outcome \in reads :
          IF check_stop_loss(outcome)
          THEN /\ pc' = "Idle"
               /\ abort' = "stop_loss"
               /\ trail' = trail
               /\ Returned
               /\ lookups' = NoLookups
          ELSE /\ pc' = "CapacityCheck"
               /\ abort' = abort
               /\ trail' = trail \cup {"CapacityCheck"}
               /\ UNCHANGED << locals, lookups >>
    /\ UNCHANGED aside
    /\ UNCHANGED << answered, loaded, scanned, analysed, setup, config, dry_run, now, order_timestamps, cycles, stores,
                    gatewayCalls, atStart, calls >>

\* A faulty capacity test, against which the capacity property is tried: it
\* lets a full position list pass.
AtMaxPositions_over(ps) == Len(ps) > config.max_positions

\* positions = self._load_positions(), then the max_positions test.
AtMaxPositions(ps) == Len(ps) >= config.max_positions

CapacityCheck(reads) ==
    /\ pc = "CapacityCheck"
    /\ \E outcome \in reads :
          IF AtMaxPositions(LoadPositions(outcome))
          THEN /\ pc' = "Idle"
               /\ abort' = "capacity"
               /\ trail' = trail
               /\ Returned
               /\ lookups' = NoLookups
               /\ loaded' = "none"
          ELSE /\ pc' = "Scanning"
               /\ abort' = abort
               /\ trail' = trail \cup {"Scanning"}
               /\ positions' = LoadPositions(outcome)
               /\ loaded' = IF ~positionsFile.exists THEN "no_file"
                             ELSE IF outcome = "raises" THEN "failed" ELSE "ok"
               /\ UNCHANGED << cycle_start, balances, lookups, markets, opportunities,
                               max_new_positions, trades_executed, trade, wait_until,
                               mIdx, oIdx >>
    /\ UNCHANGED aside
    /\ UNCHANGED << answered, scanned, analysed, setup, config, dry_run, now, order_timestamps, cycles, stores,
                    gatewayCalls, atStart, calls >>

\* markets = self.scan_markets()
Scanning(answers) ==
    /\ pc = "Scanning"
    /\ calls' = [calls EXCEPT !.scan = @ + 1]
    /\ \E answer \in answers :
          /\ markets' = scan_markets(answer)
          /\ scanned' = IF answer.ok THEN "listed" ELSE "failed"
    /\ pc' = "ScanTest"
    /\ UNCHANGED aside
    /\ UNCHANGED << answered, loaded, analysed, setup, config, dry_run, now, order_timestamps, cycles, stores,
                    gatewayCalls, abort, atStart, trail, cycle_start, balances,
                    lookups, positions, opportunities, max_new_positions,
                    trades_executed, trade, wait_until, mIdx, oIdx >>

\* A faulty empty-list test, against which the no-markets property is tried:
\* it never finds the list empty.
NoMarkets_never == FALSE

\* if not markets
NoMarkets == markets = << >>

\* The empty-list test of run_cycle; find_opportunities starts with an empty list.
ScanTest ==
    /\ pc = "ScanTest"
    /\ IF NoMarkets
       THEN /\ pc' = "Idle"
            /\ abort' = "no_markets"
            /\ trail' = trail
            /\ Returned
            /\ lookups' = NoLookups
            /\ calls' = NoCalls
            /\ loaded' = "none"
       ELSE /\ pc' = "Deciding"
            /\ abort' = abort
            /\ trail' = trail \cup {"Deciding"}
            /\ opportunities' = << >>
            /\ mIdx' = 1
            /\ UNCHANGED << cycle_start, balances, lookups, positions, markets,
                            max_new_positions, trades_executed, trade, wait_until,
                            oIdx, calls, loaded >>
    /\ UNCHANGED aside
    /\ UNCHANGED << answered, scanned, analysed, setup, config, dry_run, now, order_timestamps, cycles, stores,
                    gatewayCalls, atStart >>

\* One iteration of find_opportunities over markets[:max_to_research].
Analyze(researches, answers) ==
    /\ pc = "Deciding"
    /\ mIdx <= Len(Take(markets, max_to_research))
    /\ \E research \in researches, answer \in answers :
          LET r == AnalyzeMarket(markets[mIdx], research, answer)
          IN  /\ opportunities' = opportunities \o r.found
              /\ calls' = [calls EXCEPT !.research = @ + 1, !.estimate = @ + r.estimates]
              /\ analysed' = << [market |-> markets[mIdx], research |-> research,
                                 answer |-> IF research = "" THEN NoAnswer ELSE answer] >>
    /\ mIdx' = mIdx + 1
    /\ UNCHANGED << aside, scanned, answered, loaded >>
    /\ UNCHANGED << setup, config, dry_run, now, order_timestamps, pc, cycles, stores,
                    gatewayCalls, abort, atStart, trail, cycle_start, balances, lookups,
                    positions, markets, max_new_positions, trades_executed, trade,
                    wait_until, oIdx >>

\* find_opportunities returns; trades_executed = 0 and max_new_positions are set.
Decided ==
    /\ pc = "Deciding"
    /\ mIdx > Len(Take(markets, max_to_research))
    /\ pc' = "Executing"
    /\ trail' = trail \cup {"Executing"}
    /\ trades_executed' = 0
    /\ max_new_positions' = config.max_positions - Len(positions)
    /\ oIdx' = 1
    /\ analysed' = << >>
    /\ UNCHANGED << aside, scanned, answered, loaded >>
    /\ UNCHANGED << setup, config, dry_run, now, order_timestamps, cycles, stores,
                    gatewayCalls, abort, atStart, calls, cycle_start, balances, lookups,
                    positions, markets, opportunities, trade, wait_until, mIdx >>

\* place_trade in dry-run mode: the trade is logged and returned.
PlaceTradeDryRun ==
    /\ pc = "Executing"
    /\ oIdx <= Len(Selected)
    /\ dry_run
    /\ trade' = NewTrade(Selected[oIdx])
    /\ tradesLog' = log_trade(tradesLog, NewTrade(Selected[oIdx]))
    /\ trades_executed' = trades_executed + 1
    /\ oIdx' = oIdx + 1
    /\ UNCHANGED aside
    /\ UNCHANGED << setup, config, dry_run, now, order_timestamps, pc, cycles, positionsFile,
                    scanLog, history, cycle_start, balances, positions, markets,
                    opportunities, max_new_positions, wait_until, mIdx >>

\* place_trade up to the end of the first part of _check_rate_limit: the trade
\* record is built, old timestamps are dropped, and at the cap the thread
\* sleeps when wait_seconds > 0.
PlaceTradeCheckRateLimit ==
    /\ pc = "Executing"
    /\ oIdx <= Len(Selected)
    /\ ~dry_run
    /\ trade' = NewTrade(Selected[oIdx])
    /\ LET cutoff == now - RATE_LIMIT_WINDOW
           kept == Prune(order_timestamps, cutoff)
       IN  /\ order_timestamps' = kept
           /\ IF /\ Len(kept) >= MAX_ORDERS_PER_MINUTE
                 /\ (Head(kept) + RATE_LIMIT_WINDOW) - now > 0
              THEN /\ pc' = "Sleeping"
                   /\ wait_until' = Head(kept) + RATE_LIMIT_WINDOW
              ELSE /\ pc' = "Submit"
                   /\ wait_until' = wait_until
    /\ answered' = "none"
    /\ UNCHANGED aside
    /\ UNCHANGED << setup, config, dry_run, now, cycles, stores, lookups, gatewayCalls, abort,
                    atStart, calls, trail, scanned, analysed, loaded, cycle_start,
                    balances, positions, markets, opportunities, max_new_positions,
                    trades_executed, mIdx, oIdx >>

\* A faulty limiter, against which the blocking property is tried: once it
\* has waited it gives the submission up.
Wake_drops ==
    /\ pc = "Sleeping"
    /\ now' = wait_until
    /\ pc' = "Executing"
    /\ oIdx' = oIdx + 1
    /\ UNCHANGED << setup, config, dry_run, order_timestamps, cycles, stores, history, aside,
                    cycle_start, balances, positions, markets, opportunities,
                    max_new_positions, trades_executed, trade, wait_until, mIdx >>

\* time.sleep(wait_seconds) returns, at wait_until or later; the timestamps
\* are pruned again against the new clock.
Wake ==
    /\ pc = "Sleeping"
    /\ \E t \in wait_until .. wait_until + 1 :
          /\ now' = t
          /\ order_timestamps' = Prune(order_timestamps, t - RATE_LIMIT_WINDOW)
    /\ pc' = "Submit"
    /\ UNCHANGED aside
    /\ UNCHANGED << setup, config, dry_run, cycles, locals, stores, history >>

\* A faulty loop, against which the isolation property is tried: a failed
\* submission ends the loop.
Submit_stops(answers) ==
    /\ pc = "Submit"
    /\ gatewayCalls' = Append(gatewayCalls, now)
    /\ calls' = [calls EXCEPT !.gateway = @ + 1]
    /\ \E answer \in answers :
          /\ answered' = answer
          /\ IF answer = "ok"
             THEN /\ order_timestamps' = Append(order_timestamps, now)
                  /\ tradesLog' = log_trade(tradesLog, trade)
                  /\ trades_executed' = trades_executed + 1
                  /\ positions' = Append(positions, NewPosition(trade))
                  /\ oIdx' = oIdx + 1
             ELSE /\ oIdx' = Len(Selected) + 1
                  /\ UNCHANGED << order_timestamps, tradesLog, trades_executed, positions >>
    /\ pc' = "Executing"
    /\ UNCHANGED aside
    /\ UNCHANGED << loaded, scanned, analysed, setup, config, dry_run, now, cycles, positionsFile,
                    scanLog, abort, atStart, trail, cycle_start, balances, lookups, markets,
                    opportunities, max_new_positions, trade, wait_until, mIdx >>

\* The place_order call and what follows it in place_trade and in the loop of
\* run_cycle: on success the timestamp is recorded, the trade is logged and
\* the position is appended; on an exception place_trade returns None.
Submit(answers) ==
    /\ pc = "Submit"
    /\ gatewayCalls' = Append(gatewayCalls, now)
    /\ calls' = [calls EXCEPT !.gateway = @ + 1]
    /\ \E answer \in answers :
          /\ answered' = answer
          /\ IF answer = "ok"
             THEN /\ order_timestamps' = Append(order_timestamps, now)
                  /\ tradesLog' = log_trade(tradesLog, trade)
                  /\ trades_executed' = trades_executed + 1
                  /\ positions' = Append(positions, NewPosition(trade))
             ELSE UNCHANGED << order_timestamps, tradesLog, trades_executed, positions >>
    /\ oIdx' = oIdx + 1
    /\ pc' = "Executing"
    /\ UNCHANGED aside
    /\ UNCHANGED << loaded, scanned, analysed, setup, config, dry_run, now, cycles, positionsFile, scanLog, abort,
                    atStart, trail, cycle_start, balances, lookups, markets, opportunities,
                    max_new_positions, trade, wait_until, mIdx >>

\* A faulty end of the loop, against which the dry-run isolation is tried:
\* the positions are saved whenever a trade was counted, simulated or not.
Executed_saves_dry(writes) ==
    /\ pc = "Executing"
    /\ oIdx > Len(Selected)
    /\ answered' = "none"
    /\ positionsFile' = IF trades_executed > 0 THEN SavedFile(positions) ELSE positionsFile
    /\ pc' = "Reporting"
    /\ trail' = trail \cup {"Reporting"}
    /\ UNCHANGED << locals, aside >>
    /\ UNCHANGED << loaded, scanned, analysed, setup, config, dry_run, now, order_timestamps, cycles,
                    tradesLog, scanLog, lookups, gatewayCalls, atStart, calls, abort >>

\* Another faulty end of the loop, against which the no-trade property is
\* tried: a live cycle saves its positions whether it traded or not.
Executed_always_saves(writes) ==
    /\ pc = "Executing"
    /\ oIdx > Len(Selected)
    /\ answered' = "none"
    /\ positionsFile' = IF ~dry_run THEN SavedFile(positions) ELSE positionsFile
    /\ pc' = "Reporting"
    /\ trail' = trail \cup {"Reporting"}
    /\ UNCHANGED << locals, aside >>
    /\ UNCHANGED << loaded, scanned, analysed, setup, config, dry_run, now, order_timestamps, cycles,
                    tradesLog, scanLog, lookups, gatewayCalls, atStart, calls, abort >>

\* The loop of run_cycle is over: positions are saved when a real trade was
\* made. _save_positions has no try/except: when writing the file raises
\* (the file is left as it was), the exception leaves run_cycle.
Executed(writes) ==
    /\ pc = "Executing"
    /\ oIdx > Len(Selected)
    /\ answered' = "none"
    /\ \E outcome \in writes :
          IF ~dry_run /\ trades_executed > 0 /\ outcome = "raises"
          THEN /\ pc' = "Raised"
               /\ abort' = "save_failed"
               /\ positionsFile' = positionsFile
               /\ trail' = trail
               /\ Returned
          ELSE /\ positionsFile' = IF ~dry_run /\ trades_executed > 0
                                   THEN SavedFile(positions) ELSE positionsFile
               /\ pc' = "Reporting"
               /\ abort' = abort
               /\ trail' = trail \cup {"Reporting"}
               /\ UNCHANGED locals
    /\ UNCHANGED aside
    /\ UNCHANGED << loaded, scanned, analysed, setup, config, dry_run, now, order_timestamps, cycles,
                    tradesLog, scanLog, lookups, gatewayCalls, atStart, calls >>

\* The scan_result line is appended to scan_results.jsonl; run_cycle returns.
Reporting ==
    /\ pc = "Reporting"
    /\ scanLog' = Append(scanLog,
                         [timestamp |-> cycle_start,
                          dry_run |-> dry_run,
                          markets_scanned |-> Len(markets),
                          opportunities_found |-> Len(opportunities),
                          trades_executed |-> trades_executed,
                          cycle_duration_seconds |-> now - cycle_start,
                          serenbucks_balance |-> balances.serenbucks,
                          polymarket_balance |-> balances.polymarket])
    /\ pc' = "Idle"
    /\ Returned
    /\ lookups' = NoLookups
    /\ scanned' = "none"
    /\ calls' = NoCalls
    /\ loaded' = "none"
    /\ UNCHANGED aside
    /\ UNCHANGED << answered, analysed, setup, config, dry_run, now, order_timestamps, cycles, positionsFile,
                    tradesLog, gatewayCalls, abort, atStart, trail >>

\* The trader under every answer of its collaborators. The steps of a cycle
\* take no time here: the clock moves only in the rate limiter's sleep
\* (SpecRate lets the clock run).
Next ==
    \/ StartCycle
    \/ CheckBalances(BalanceAnswers)
    \/ BalanceTest
    \/ StopLossCheck({"ok"})
    \/ CapacityCheck({"ok"})
    \/ Scanning(ScanAnswers)
    \/ ScanTest
    \/ Analyze(ResearchAnswers, OracleAnswers)
    \/ Decided
    \/ PlaceTradeDryRun
    \/ PlaceTradeCheckRateLimit
    \/ Wake
    \/ Submit(GatewayAnswers)
    \/ Executed({"ok"})
    \/ Reporting

Spec == Init /\ [][Next]_vars

\* The rate limiter under load: a live trader whose every cycle finds an
\* opportunity in each market analysed. The clock may advance before each
\* trade is built and rate-limited, before each place_order call, and
\* before the cycle saves and reports.
RateConfig ==
    [bankroll |-> 100, mispricing_threshold |-> 2, max_kelly_fraction |-> 4,
     scan_interval_minutes |-> 1, max_positions |-> 10, stop_loss_bankroll |-> 0]
RateListing == Listing(<< m1, m1 >>)

InitRate == Constructed({RateConfig}, {FALSE}) /\ NothingAside

NextRate ==
    \/ Tick({"Executing", "Submit"})
    \/ StartCycle
    \/ CheckBalances({Lookups(Balance(Dollar), Balance(3 * Dollar))})
    \/ BalanceTest
    \/ StopLossCheck({"ok"})
    \/ CapacityCheck({"ok"})
    \/ Scanning({RateListing})
    \/ ScanTest
    \/ Analyze({"summary"}, {Json(PD, "high")})
    \/ Decided
    \/ PlaceTradeCheckRateLimit
    \/ Wake
    \/ Submit(GatewayAnswers)
    \/ Executed({"ok"})
    \/ Reporting

SpecRate == InitRate /\ [][NextRate]_vars

\* The rate limiter under a gateway that accepts every order, with the
\* progress the single thread makes: time.sleep returns, and the place_order
\* call returns.
NextRateLive ==
    \/ Tick({"Executing"})
    \/ StartCycle
    \/ CheckBalances({Lookups(Balance(Dollar), Balance(3 * Dollar))})
    \/ BalanceTest
    \/ StopLossCheck({"ok"})
    \/ CapacityCheck({"ok"})
    \/ Scanning({RateListing})
    \/ ScanTest
    \/ Analyze({"summary"}, {Json(PD, "high")})
    \/ Decided
    \/ PlaceTradeCheckRateLimit
    \/ Wake
    \/ Submit({"ok"})
    \/ Executed({"ok"})
    \/ Reporting

SpecRateLive ==
    InitRate /\ [][NextRateLive]_vars /\ WF_vars(Wake) /\ WF_vars(Submit({"ok"}))

\* The sizer on its own: calculate_position_size applied to every fair value
\* on the price grid, every cap on the Kelly grid in (0, 1] and every
\* bankroll of 1 to MaxBankroll dollars.
MaxBankroll == 6
SizerInputs == [p : 0 .. PD, max_kelly_fraction : 1 .. FD, bankroll : 1 .. MaxBankroll]

InitSizer ==
    Constructed({RateConfig}, {FALSE}) /\ args \in SizerInputs /\ result = Unset /\ NoLedger
    /\ other = NoOther

ApplySizer ==
    /\ ~result.set
    /\ result' = [set |-> TRUE,
                  value |-> calculate_position_size(args.p, args.max_kelly_fraction,
                                                    args.bankroll)]
    /\ UNCHANGED << setup, config, dry_run, now, order_timestamps, pc, cycles, locals, stores,
                    history, args, ledger, other >>

NextSizer == ApplySizer

SpecSizer == InitSizer /\ [][NextSizer]_vars

\* ----------------------------------------------------------------- ledger
\* position_tracker.py. Prices are on the price grid, sizes in whole dollars.
\* unrealized_pnl is an exact fraction of a dollar, [num, den] in lowest
\* terms; to_dict writes it rounded to whole cents.
MaxLedgerOps == 3

RECURSIVE GCD(_, _)
GCD(a, b) == IF b = 0 THEN a ELSE GCD(b, a % b)

Fraction(n, d) ==
    LET g == GCD(Abs(n), d)
    IN  [num |-> n \div g, den |-> d \div g]

Zero == Fraction(0, 1)

FractionSum(a, b) == Fraction(a.num * b.den + b.num * a.den, a.den * b.den)

\* round(x, 2), in cents: to the nearest cent, a tie to the even one.
Round2(x) ==
    LET n == 100 * x.num
        q == n \div x.den
        r == n - q * x.den
    IN  IF 2 * r < x.den THEN q
        ELSE IF 2 * r > x.den THEN q + 1
        ELSE IF q % 2 = 0 THEN q ELSE q + 1

\* Position.__init__
Position(market_id, side, entry_price, size, opened_at) ==
    [market |-> market_id, market_id |-> market_id, token_id |-> "token",
     side |-> side, entry_price |-> entry_price, size |-> size,
     opened_at |-> opened_at, current_price |-> entry_price,
     unrealized_pnl |-> Zero]

\* A faulty update_price, against which the P&L property is tried: a SELL
\* position is given the shares of a BUY position.
update_price_buy_shares(pos, current_price) ==
    IF pos.entry_price = 0
    THEN [raised |-> TRUE, pos |-> [pos EXCEPT !.current_price = current_price]]
    ELSE [raised |-> FALSE,
          pos |-> [pos EXCEPT
                     !.current_price = current_price,
                     !.unrealized_pnl =
                         IF pos.side = "BUY"
                         THEN Fraction((current_price - pos.entry_price) * pos.size,
                                       pos.entry_price)
                         ELSE Fraction((pos.entry_price - current_price) * pos.size,
                                       pos.entry_price)]]

\* Position.update_price: the position afterwards, and whether the division
\* raised ZeroDivisionError (current_price is assigned before it).
update_price(pos, current_price) ==
    LET priced == [pos EXCEPT !.current_price = current_price]
    IN  IF pos.side = "BUY"
        THEN IF pos.entry_price = 0
             THEN [raised |-> TRUE, pos |-> priced]
             ELSE [raised |-> FALSE,
                   pos |-> [priced EXCEPT !.unrealized_pnl =
                              Fraction((current_price - pos.entry_price) * pos.size,
                                       pos.entry_price)]]
        ELSE IF pos.side = "SELL"
        THEN IF PD - pos.entry_price = 0
             THEN [raised |-> TRUE, pos |-> priced]
             ELSE [raised |-> FALSE,
                   pos |-> [priced EXCEPT !.unrealized_pnl =
                              Fraction((pos.entry_price - current_price) * pos.size,
                                       PD - pos.entry_price)]]
        ELSE [raised |-> FALSE, pos |-> priced]

\* Position.to_dict
to_dict(pos) == [pos EXCEPT !.unrealized_pnl = Round2(pos.unrealized_pnl)]

\* A faulty from_dict, against which the round-trip property is tried: it
\* forgets the saved P&L.
from_dict_forgets_pnl(data) ==
    [Position(data.market_id, data.side, data.entry_price, data.size, data.opened_at)
        EXCEPT !.market = data.market,
               !.token_id = data.token_id,
               !.current_price = IF "current_price" \in DOMAIN data
                                 THEN data.current_price ELSE data.entry_price]

\* Position.from_dict: data[...] raises KeyError for an absent key, .get
\* falls back to its default. The saved P&L is a number of cents.
FromDictKeys ==
    {"market", "market_id", "token_id", "side", "entry_price", "size", "opened_at"}
from_dict(data) ==
    [Position(data.market_id, data.side, data.entry_price, data.size, data.opened_at)
        EXCEPT !.market = data.market,
               !.token_id = data.token_id,
               !.current_price = IF "current_price" \in DOMAIN data
                                 THEN data.current_price ELSE data.entry_price,
               !.unrealized_pnl = IF "unrealized_pnl" \in DOMAIN data
                                  THEN Fraction(data.unrealized_pnl, 100) ELSE Zero]

\* The dict self.positions as a sequence of Position in insertion order.
Has(ps, market_id) == \E i \in DOMAIN ps : ps[i].market_id = market_id
IndexOf(ps, market_id) == CHOOSE i \in DOMAIN ps : ps[i].market_id = market_id
Get(ps, market_id) == ps[IndexOf(ps, market_id)]
\* self.positions[market_id] = pos: an existing key keeps its place.
Put(ps, pos) ==
    IF Has(ps, pos.market_id)
    THEN [ps EXCEPT ![IndexOf(ps, pos.market_id)] = pos]
    ELSE Append(ps, pos)
\* A faulty pop, against which the remove property is tried: it takes out the
\* oldest entry whenever the key is there.
Pop_oldest(ps, market_id) == IF Has(ps, market_id) THEN Tail(ps) ELSE ps

\* self.positions.pop(market_id, None)
Pop(ps, market_id) ==
    IF Has(ps, market_id)
    THEN SubSeq(ps, 1, IndexOf(ps, market_id) - 1)
            \o SubSeq(ps, IndexOf(ps, market_id) + 1, Len(ps))
    ELSE ps

\* The loop of load over data.get('positions', []), filling the dict ps, up
\* to the first from_dict that raises.
RECURSIVE LoadAll(_, _)
LoadAll(data, ps) ==
    IF data = << >> THEN [raised |-> FALSE, positions |-> ps]
    ELSE IF ~(FromDictKeys \subseteq DOMAIN Head(data))
         THEN [raised |-> TRUE, positions |-> ps]
         ELSE LoadAll(Tail(data), Put(ps, from_dict(Head(data))))

\* get_total_unrealized_pnl
RECURSIVE get_total_unrealized_pnl(_)
get_total_unrealized_pnl(ps) ==
    IF ps = << >> THEN Zero
    ELSE FractionSum(Head(ps).unrealized_pnl, get_total_unrealized_pnl(Tail(ps)))

\* get_total_deployed
RECURSIVE get_total_deployed(_)
get_total_deployed(ps) ==
    IF ps = << >> THEN 0 ELSE Head(ps).size + get_total_deployed(Tail(ps))

\* get_current_bankroll
get_current_bankroll(ps, initial_bankroll) ==
    FractionSum(Fraction(initial_bankroll, 1), get_total_unrealized_pnl(ps))

\* A faulty get_available_capital, against which the aggregates property is
\* tried: it starts from the initial bankroll.
get_available_capital_initial(ps, initial_bankroll) ==
    LET deployed == get_total_deployed(ps)
    IN  FractionSum(Fraction(initial_bankroll, 1), Fraction(-deployed, 1))

\* get_available_capital
get_available_capital(ps, initial_bankroll) ==
    LET current == get_current_bankroll(ps, initial_bankroll)
        deployed == get_total_deployed(ps)
    IN  FractionSum(current, Fraction(-deployed, 1))

\* PositionTracker.save: what json.dump writes for the positions ps.
TrackerFile(ps) ==
    [exists |-> TRUE,
     positions |-> [i \in DOMAIN ps |-> to_dict(ps[i])],
     total_unrealized_pnl |-> get_total_unrealized_pnl(ps),
     position_count |-> Len(ps),
     last_updated |-> now]

\* save() writes the file, or raises (OSError from makedirs or open) and
\* leaves the file as it was.
SaveOutcomes == {"ok", "raises"}
save(ps, outcome) == IF outcome = "ok" THEN TrackerFile(ps) ELSE positionsFile

\* A faulty update_prices, against which the frame property is tried: the
\* first price of the map is given to every position.
UpdateAll_every(ps, prices) ==
    IF prices = << >> THEN [raised |-> FALSE, positions |-> ps]
    ELSE [raised |-> FALSE,
          positions |-> [i \in DOMAIN ps |-> update_price(ps[i], Head(prices).price).pos]]

\* The loop of update_prices over prices.items(), up to the first
\* update_price that raises.
RECURSIVE UpdateAll(_, _)
UpdateAll(ps, prices) ==
    IF prices = << >> THEN [raised |-> FALSE, positions |-> ps]
    ELSE IF ~Has(ps, Head(prices).market_id) THEN UpdateAll(ps, Tail(prices))
    ELSE LET u == update_price(Get(ps, Head(prices).market_id), Head(prices).price)
         IN  IF u.raised THEN [raised |-> TRUE, positions |-> Put(ps, u.pos)]
             ELSE UpdateAll(Put(ps, u.pos), Tail(prices))

\* What the callers of the tracker pass in.
LedgerOrders ==
    { [market_id |-> "m1", side |-> "BUY", entry_price |-> 4, size |-> 100],
      [market_id |-> "m1", side |-> "SELL", entry_price |-> 7, size |-> 100],
      [market_id |-> "m2", side |-> "SELL", entry_price |-> 7, size |-> 100],
      [market_id |-> "m2", side |-> "BUY", entry_price |-> 0, size |-> 100] }
LedgerMarkets == {"m1", "m2"}
Quote(market_id, price) == [market_id |-> market_id, price |-> price]
PriceMaps ==
    { << Quote("m1", 6) >>, << Quote("m1", 5), Quote("m2", 5) >>,
      << Quote("m2", 5), Quote("m1", 6) >> }

LedgerUnchanged ==
    UNCHANGED << setup, config, dry_run, now, order_timestamps, pc, cycles, locals, tradesLog,
                 scanLog, history, args, result, other >>

\* PositionTracker.add_position
add_position ==
    /\ ledgerOps < MaxLedgerOps
    /\ \E order \in LedgerOrders, outcome \in SaveOutcomes :
          /\ tracker' = Put(tracker, Position(order.market_id, order.side,
                                              order.entry_price, order.size, now))
          /\ positionsFile' = save(tracker', outcome)
          /\ lastCall' = [NoCall EXCEPT
                             !.op = "add", !.outcome = outcome,
                             !.market_id = order.market_id, !.side = order.side,
                             !.entry_price = order.entry_price, !.size = order.size,
                             !.returned =
                                 IF outcome = "ok" THEN Get(tracker', order.market_id)
                                 ELSE None]
    /\ ledgerOps' = ledgerOps + 1
    /\ LedgerUnchanged

\* PositionTracker.remove_position: saves only when a position was removed.
remove_position ==
    /\ ledgerOps < MaxLedgerOps
    /\ \E market_id \in LedgerMarkets, outcome \in SaveOutcomes :
          /\ tracker' = Pop(tracker, market_id)
          /\ positionsFile' = IF Has(tracker, market_id)
                              THEN save(tracker', outcome) ELSE positionsFile
          /\ lastCall' = [NoCall EXCEPT
                             !.op = "remove",
                             !.outcome = IF Has(tracker, market_id) THEN outcome ELSE "ok",
                             !.market_id = market_id,
                             !.returned =
                                 IF Has(tracker, market_id) /\ outcome = "ok"
                                 THEN Get(tracker, market_id) ELSE None]
    /\ ledgerOps' = ledgerOps + 1
    /\ LedgerUnchanged

\* PositionTracker.update_prices: save() is reached when no update_price raised.
update_prices ==
    /\ ledgerOps < MaxLedgerOps
    /\ \E prices \in PriceMaps, outcome \in SaveOutcomes :
          LET u == UpdateAll(tracker, prices)
          IN  /\ tracker' = u.positions
              /\ positionsFile' = IF u.raised THEN positionsFile
                                  ELSE save(tracker', outcome)
              /\ lastCall' = [NoCall EXCEPT
                                 !.op = "update",
                                 !.outcome = IF u.raised THEN "ZeroDivisionError"
                                             ELSE outcome,
                                 !.prices = prices]
    /\ ledgerOps' = ledgerOps + 1
    /\ LedgerUnchanged

\* The four aggregate getters, as a caller of the tracker reads them.
LedgerBankrolls == {100, 250}

ReadOnly == UNCHANGED << tracker, ledgerOps, positionsFile >> /\ LedgerUnchanged

total_unrealized_pnl ==
    /\ lastCall' = [NoCall EXCEPT !.op = "get_total_unrealized_pnl",
                                  !.outcome = "ok",
                                  !.returned = get_total_unrealized_pnl(tracker)]
    /\ ReadOnly

total_deployed ==
    /\ lastCall' = [NoCall EXCEPT !.op = "get_total_deployed",
                                  !.outcome = "ok",
                                  !.returned = get_total_deployed(tracker)]
    /\ ReadOnly

current_bankroll ==
    /\ \E initial_bankroll \in LedgerBankrolls :
          lastCall' = [NoCall EXCEPT
                         !.op = "get_current_bankroll",
                         !.outcome = "ok",
                         !.initial_bankroll = initial_bankroll,
                         !.returned = get_current_bankroll(tracker, initial_bankroll)]
    /\ ReadOnly

available_capital ==
    /\ \E initial_bankroll \in LedgerBankrolls :
          lastCall' = [NoCall EXCEPT
                         !.op = "get_available_capital",
                         !.outcome = "ok",
                         !.initial_bankroll = initial_bankroll,
                         !.returned = get_available_capital(tracker, initial_bankroll)]
    /\ ReadOnly

\* PositionTracker.load: no file, or any exception on the way, gives {}.
load(reads) ==
    /\ ledgerOps < MaxLedgerOps
    /\ pc \in {"Idle", "Raised"}
    /\ \E outcome \in reads :
          LET l == LoadAll(positionsFile.positions, << >>)
              how == IF ~positionsFile.exists THEN "no_file"
                     ELSE IF outcome = "raises" THEN "raises"
                     ELSE IF l.raised THEN "KeyError" ELSE "ok"
          IN  /\ tracker' = IF how = "ok" THEN l.positions ELSE << >>
              /\ lastCall' = [NoCall EXCEPT !.op = "load", !.outcome = how]
    /\ ledgerOps' = ledgerOps + 1
    /\ positionsFile' = positionsFile
    /\ LedgerUnchanged

InitLedger == Constructed({RateConfig}, {FALSE}) /\ NothingAside

NextLedger ==
    \/ add_position
    \/ remove_position
    \/ update_prices
    \/ load(FileOutcomes)
    \/ total_unrealized_pnl
    \/ total_deployed
    \/ current_bankroll
    \/ available_capital

SpecLedger == InitLedger /\ [][NextLedger]_vars

\* ------------------------------------------------------------- the store
\* The positions file under I/O errors and under both of its users: a live
\* trader that finds an opportunity in each of two markets every cycle,
\* whose reads and writes of the file may raise, and a PositionTracker that
\* is constructed on the same file between cycles.
StoreConfig ==
    [bankroll |-> 100, mispricing_threshold |-> 1, max_kelly_fraction |-> 4,
     scan_interval_minutes |-> 1, max_positions |-> 10, stop_loss_bankroll |-> 0]
StoreListing == Listing(<< m1, m2 >>)

InitStore == Constructed({StoreConfig}, {FALSE}) /\ NothingAside

NextStore ==
    \/ StartCycle
    \/ CheckBalances({Lookups(Balance(Dollar), Balance(3 * Dollar))})
    \/ BalanceTest
    \/ StopLossCheck(FileOutcomes)
    \/ CapacityCheck(FileOutcomes)
    \/ Scanning({StoreListing})
    \/ ScanTest
    \/ Analyze({"summary"}, {Json(PD, "high")})
    \/ Decided
    \/ PlaceTradeCheckRateLimit
    \/ Wake
    \/ Submit(GatewayAnswers)
    \/ Executed(FileOutcomes)
    \/ Reporting
    \/ load(FileOutcomes)

SpecStore == InitStore /\ [][NextStore]_vars

\* ------------------------------------------------------ overlapping cycles
\* Two trader processes on the same logs directory, started from the same
\* config.json: the trader above, and a second live trader whose run_cycle
\* is followed at the places where it touches the shared files. The second
\* trader is listed the one market m2, finds the opportunity in it, and has
\* the funds; its own rate limiter never sleeps over the at most
\* MaxOtherCycles orders it places.
MaxOtherCycles == 1

MainInFlight == pc \notin {"Idle", "Raised"}

\* What the second trader's find_opportunities returns.
OtherOpportunities == AnalyzeMarket(m2, "summary", Json(PD, "high")).found

\* run_cycle of the second trader up to positions = self._load_positions():
\* the stop-loss and capacity tests pass on the file as it is now.
OtherStart ==
    /\ other.pc = "Idle"
    /\ other.cycles < MaxOtherCycles
    /\ ~check_stop_loss("ok")
    /\ ~AtMaxPositions(LoadPositions("ok"))
    /\ other' = [other EXCEPT !.pc = "Executing",
                              !.cycle_start = now,
                              !.positions = LoadPositions("ok"),
                              !.trades_executed = 0,
                              !.cycles = @ + 1,
                              !.saw = IF MainInFlight THEN cycles ELSE @]
    /\ UNCHANGED << setup, config, dry_run, now, order_timestamps, pc, cycles, locals, stores,
                    history, args, result, ledger >>

\* The loop of run_cycle of the second trader over its one opportunity:
\* place_trade, and the position appended to its list on success.
OtherSubmit(answers) ==
    /\ other.pc = "Executing"
    /\ \E answer \in answers :
          LET placed == NewTrade(OtherOpportunities[1])
          IN  IF answer = "ok"
              THEN /\ tradesLog' = log_trade(tradesLog, placed)
                   /\ other' = [other EXCEPT
                                   !.pc = "Saving",
                                   !.positions = Append(@, NewPosition(placed)),
                                   !.trades_executed = @ + 1,
                                   !.saw = IF MainInFlight THEN cycles ELSE @]
              ELSE /\ tradesLog' = tradesLog
                   /\ other' = [other EXCEPT
                                   !.pc = "Saving",
                                   !.saw = IF MainInFlight THEN cycles ELSE @]
    /\ UNCHANGED << setup, config, dry_run, now, order_timestamps, pc, cycles, locals,
                    positionsFile, scanLog, history, args, result, ledger >>

\* The end of run_cycle of the second trader: its list is saved when it made
\* a trade, the scan_result line is appended, and run_cycle returns.
OtherFinish ==
    /\ other.pc = "Saving"
    /\ positionsFile' = IF other.trades_executed > 0
                        THEN SavedFile(other.positions) ELSE positionsFile
    /\ scanLog' = Append(scanLog,
                         [timestamp |-> other.cycle_start,
                          dry_run |-> dry_run,
                          markets_scanned |-> 1,
                          opportunities_found |-> Len(OtherOpportunities),
                          trades_executed |-> other.trades_executed,
                          cycle_duration_seconds |-> now - other.cycle_start,
                          serenbucks_balance |-> Dollar,
                          polymarket_balance |-> 3 * Dollar])
    /\ other' = [other EXCEPT !.pc = "Idle",
                              !.cycle_start = 0,
                              !.positions = << >>,
                              !.trades_executed = 0,
                              !.saw = IF MainInFlight THEN cycles ELSE @]
    /\ UNCHANGED << setup, config, dry_run, now, order_timestamps, pc, cycles, locals,
                    tradesLog, history, args, result, ledger >>

InitOverlap == Constructed({StoreConfig}, {FALSE}) /\ NothingAside

NextOverlap ==
    \/ StartCycle
    \/ CheckBalances({Lookups(Balance(Dollar), Balance(3 * Dollar))})
    \/ BalanceTest
    \/ StopLossCheck({"ok"})
    \/ CapacityCheck({"ok"})
    \/ Scanning({StoreListing})
    \/ ScanTest
    \/ Analyze({"summary"}, {Json(PD, "high")})
    \/ Decided
    \/ PlaceTradeCheckRateLimit
    \/ Wake
    \/ Submit(GatewayAnswers)
    \/ Executed({"ok"})
    \/ Reporting
    \/ OtherStart
    \/ OtherSubmit(GatewayAnswers)
    \/ OtherFinish

SpecOverlap == InitOverlap /\ [][NextOverlap]_vars

\* --------------------------------------------------------------- storage
\* serendb_storage.py, _execute_sql: the text of the query that is posted.
\* A string is the sequence of its characters.
MaxQueryLen == 3
MaxParams == 2
MaxParamLen == 1

Strings(chars, n) == UNION {[1 .. k -> chars] : k \in 0 .. n}

\* query.replace('?', new, 1): the first '?' of the text as it is now is
\* replaced; a text without '?' is returned as it is.
ReplaceFirst(query, new) ==
    IF \E i \in DOMAIN query : query[i] = "?"
    THEN LET first == CHOOSE i \in DOMAIN query :
                          /\ query[i] = "?"
                          /\ \A j \in 1 .. i - 1 : query[j] # "?"
         IN  SubSeq(query, 1, first - 1) \o new \o SubSeq(query, first + 1, Len(query))
    ELSE query

\* param.replace("'", "''")
RECURSIVE Escape(_)
Escape(text) ==
    IF text = << >> THEN << >>
    ELSE (IF Head(text) = "'" THEN << "'", "'" >> ELSE << Head(text) >>) \o Escape(Tail(text))

\* str(param) of the numbers 0 to 9.
Digit(n) == << "0", "1", "2", "3", "4", "5", "6", "7", "8", "9" >>[n + 1]

\* What takes the place of a '?': the quoted and escaped string, NULL, or
\* str(param).
SqlText(param) ==
    IF param.kind = "str" THEN << "'" >> \o Escape(param.text) \o << "'" >>
    ELSE IF param.kind = "None" THEN << "N", "U", "L", "L" >>
    ELSE << Digit(param.value) >>

\* The loop `for param in params` of _execute_sql.
RECURSIVE Substitute(_, _)
Substitute(query, params) ==
    IF params = << >> THEN query
    ELSE Substitute(ReplaceFirst(query, SqlText(Head(params))), Tail(params))

\* _execute_sql: raises before the database is set up; otherwise posts the
\* query with its parameters substituted.
execute_sql(initialized, query, params) ==
    IF ~initialized THEN [raised |-> TRUE, query |-> << >>]
    ELSE [raised |-> FALSE, query |-> Substitute(query, params)]

\* The queries and parameter tuples of the callers, cut down: queries of up
\* to MaxQueryLen characters with placeholders, tuples of up to MaxParams
\* strings (which may hold a '?' or a quote), None and numbers.
Str(text) == [kind |-> "str", text |-> text, value |-> 0]
Num(value) == [kind |-> "num", text |-> << >>, value |-> value]
SqlNone == [kind |-> "None", text |-> << >>, value |-> 0]
SqlParams == {Str(text) : text \in Strings({"?", "'", "a"}, MaxParamLen)} \cup {SqlNone, Num(7)}
SqlInputs ==
    [initialized : BOOLEAN,
     query : Strings({"?", "a"}, MaxQueryLen),
     params : Strings(SqlParams, MaxParams)]

InitSql ==
    /\ Constructed({RateConfig}, {FALSE})
    /\ args \in SqlInputs
    /\ result = Unset
    /\ NoLedger
    /\ other = NoOther

ApplySql ==
    /\ ~result.set
    /\ result' = [set |-> TRUE,
                  value |-> execute_sql(args.initialized, args.query, args.params)]
    /\ UNCHANGED << setup, config, dry_run, now, order_timestamps, pc, cycles, locals, stores,
                    history, args, ledger, other >>

NextSql == ApplySql

SpecSql == InitSql /\ [][NextSql]_vars

\* -------------------------------------------------------------------- main
\* main(): the trader is constructed from config.json and the environment,
\* run_cycle is called once, and the process exits with 0, or with 1 when
\* the construction or the cycle raised.
NoConfig ==
    [bankroll |-> 0, mispricing_threshold |-> 0, max_kelly_fraction |-> 0,
     scan_interval_minutes |-> 0, max_positions |-> 0, stop_loss_bankroll |-> 0]

\* A faulty validation, against which the fail-fast property is tried: the
\* last required field is not looked for.
load_config_five(file) ==
    LET required == {"bankroll", "mispricing_threshold", "max_kelly_fraction",
                     "scan_interval_minutes", "max_positions"}
    IN  IF ~file.exists THEN [raised |-> "FileNotFoundError", config |-> NoConfig]
        ELSE IF \E field \in required : field \notin DOMAIN file.json
             THEN [raised |-> "ValueError", config |-> NoConfig]
             ELSE [raised |-> "none", config |-> file.json]

\* _load_config: the document, or the exception raised.
load_config(file) ==
    LET required == {"bankroll", "mispricing_threshold", "max_kelly_fraction",
                     "scan_interval_minutes", "max_positions", "stop_loss_bankroll"}
    IN  IF ~file.exists THEN [raised |-> "FileNotFoundError", config |-> NoConfig]
        ELSE IF \E field \in required : field \notin DOMAIN file.json
             THEN [raised |-> "ValueError", config |-> NoConfig]
             ELSE [raised |-> "none", config |-> file.json]

\* A document with one field taken out.
Without(document, field) ==
    [f \in DOMAIN document \ {field} |-> document[f]]

\* The config.json files main may find: none, a complete document, the
\* empty object, and a document with one of its fields missing.
FullConfig ==
    [bankroll |-> 8, mispricing_threshold |-> 2, max_kelly_fraction |-> 10,
     scan_interval_minutes |-> 1, max_positions |-> 4, stop_loss_bankroll |-> 2]
ConfigFiles ==
    {NoConfigFile, ConfigFile(FullConfig), ConfigFile([field \in {} |-> 0])}
        \cup {ConfigFile(Without(FullConfig, field)) : field \in DOMAIN FullConfig}

\* trader = PolymarketTrader(args.config, dry_run=args.dry_run): _load_config,
\* then _init_agent, which raises ValueError without SEREN_API_KEY; main
\* turns either exception into exit code 1.
Construct ==
    /\ pc = "Main"
    /\ LET loaded_config == load_config(configFile)
       IN  IF loaded_config.raised # "none" \/ ~SEREN_API_KEY
           THEN pc' = "Exit1" /\ config' = config
           ELSE pc' = "Idle" /\ config' = loaded_config.config
    /\ UNCHANGED << setup, dry_run, now, order_timestamps, cycles, locals, stores, history,
                    aside >>

\* trader.run_cycle(), once.
RunCycleOnce == cycles = 0 /\ StartCycle

\* sys.exit(0) after the cycle, sys.exit(1) after an exception of the cycle.
Exit ==
    /\ \/ pc = "Idle" /\ cycles = 1 /\ pc' = "Exit0"
       \/ pc = "Raised" /\ pc' = "Exit1"
    /\ UNCHANGED << setup, config, dry_run, now, order_timestamps, cycles, locals, stores,
                    history, aside >>

\* The one cycle of a process starts with no recorded order and places at
\* most max_to_research orders, fewer than it takes to make the rate limiter
\* sleep: Wake has no part in it.
InitMain ==
    /\ configFile \in ConfigFiles
    /\ SEREN_API_KEY \in BOOLEAN
    /\ config = NoConfig
    /\ Fresh(BOOLEAN)
    /\ pc = "Main"
    /\ NothingAside

NextMain ==
    \/ Construct
    \/ RunCycleOnce
    \/ CheckBalances(BalanceAnswers)
    \/ BalanceTest
    \/ StopLossCheck(FileOutcomes)
    \/ CapacityCheck(FileOutcomes)
    \/ Scanning(ScanAnswers)
    \/ ScanTest
    \/ Analyze(ResearchAnswers, OracleAnswers)
    \/ Decided
    \/ PlaceTradeDryRun
    \/ PlaceTradeCheckRateLimit
    \/ Submit(GatewayAnswers)
    \/ Executed(FileOutcomes)
    \/ Reporting
    \/ Exit

SpecMain == InitMain /\ [][NextMain]_vars

\* ------------------------------------------------------------------ claims
\* Place_order calls made in the window of RATE_LIMIT_WINDOW ticks that ends
\* with (and includes) call i; a call exactly RATE_LIMIT_WINDOW ticks earlier
\* is outside it.
CallsInWindow(i) ==
    {j \in DOMAIN gatewayCalls :
        /\ gatewayCalls[i] - RATE_LIMIT_WINDOW < gatewayCalls[j]
        /\ gatewayCalls[j] <= gatewayCalls[i]}

\* C1: on one live trader, every window of RATE_LIMIT_WINDOW ticks holds at
\* most MAX_ORDERS_PER_MINUTE place_order calls, failed calls included.
C1_RateLimitCap ==
    \A i \in DOMAIN gatewayCalls : Cardinality(CallsInWindow(i)) <= MAX_ORDERS_PER_MINUTE

\* C2: the persisted position set holds at most one position per market_id.
C2_PositionUniqueness ==
    \A i, j \in DOMAIN positionsFile.positions :
        positionsFile.positions[i].market_id = positionsFile.positions[j].market_id
            => i = j

\* C3: the sizes of the persisted positions sum to at most the bankroll.
C3_BankrollConservation ==
    SumSizes(positionsFile.positions) <= config.bankroll * Dollar

GuardReasons == {"balance", "stop_loss", "capacity"}

\* What the current cycle has added to the stores and sent to the gateway.
NothingExecuted ==
    /\ "Executing" \notin trail
    /\ Len(gatewayCalls) = atStart.gateway
    /\ Len(tradesLog) = atStart.trades
    /\ positionsFile = atStart.file

\* C4: a cycle whose balance, stop-loss or capacity guard fails goes directly
\* to Reporting and never enters Executing: no order is submitted, no trade
\* record is appended and no position is added.
C4_GuardFailureGoesToReporting ==
    [][(abort = "none" /\ abort' \in GuardReasons)
          => (pc' = "Reporting" /\ NothingExecuted')]_vars

\* The part of C4 the code keeps: after a failed guard nothing was executed.
GuardFailureNeverExecutes ==
    abort \in GuardReasons => NothingExecuted

\* C5: every cycle that has started and is back at Idle has appended exactly
\* one cycle summary.
C5_ReportingAlwaysHappens ==
    pc = "Idle" => Len(scanLog) = cycles

\* C6: a cycle that starts with bankroll - deployed <= stop_loss_bankroll
\* makes no trade and leaves the persisted position set as it was (it never
\* gets past the stop-loss check); a cycle that starts above the floor and
\* reaches the stop-loss check passes it.
StartedBelowFloor ==
    config.bankroll * Dollar - SumSizes(atStart.file.positions)
        <= config.stop_loss_bankroll * Dollar

C6_StopLossGuard ==
    cycles > 0 =>
        /\ StartedBelowFloor =>
              /\ "CapacityCheck" \notin trail
              /\ abort \in {"none", "balance", "stop_loss"}
              /\ pc \in {"BalanceCheck", "BalanceTest", "StopLossCheck", "Idle"}
              /\ (pc = "Idle" => abort \in {"balance", "stop_loss"})
              /\ Len(tradesLog) = atStart.trades
              /\ Len(gatewayCalls) = atStart.gateway
              /\ positionsFile = atStart.file
        /\ ~StartedBelowFloor =>
              /\ abort # "stop_loss"
              /\ ("StopLossCheck" \in trail /\ pc # "StopLossCheck")
                    => "CapacityCheck" \in trail

C6_Witness ==
    /\ pc = "Idle"
    /\ abort = "stop_loss"
    /\ SumSizes(positionsFile.positions) > 0

\* C7: a cycle that starts with at least max_positions open positions makes
\* no scan call, no research or estimate call and no place_order call, and
\* enters none of Scanning, Deciding, Executing.
StartedAtCapacity == Len(atStart.file.positions) >= config.max_positions

C7_CapacityGuard ==
    (cycles > 0 /\ StartedAtCapacity) =>
        /\ calls = NoCalls
        /\ trail \cap {"Scanning", "Deciding", "Executing"} = {}
        /\ Len(gatewayCalls) = atStart.gateway
        /\ (pc = "Idle" => abort \in GuardReasons)

C7_Witness ==
    /\ pc = "Idle"
    /\ abort = "capacity"
    /\ StartedAtCapacity

\* C8 as stated: the cycle returns at the balance test if and only if the
\* trading-currency (Polymarket) balance is below $1.
C8_TradingBalanceGuard ==
    [][pc = "BalanceTest" => ((pc' = "Idle") <=> (balances.polymarket < Dollar))]_vars

\* C8 amended: the cycle returns at the balance test, before the stop-loss
\* check, the scan and any execution, if and only if the SerenBucks balance
\* is below $1; a SerenBucks lookup that fails counts as 0 and so returns.
\* The Polymarket balance is looked up and not tested.
C8_SerenBucksBalanceGuard ==
    [][pc = "BalanceTest" =>
          /\ balances.serenbucks =
                (IF lookups.serenbucks.ok THEN lookups.serenbucks.balance ELSE 0)
          /\ (pc' = "Idle") <=> (balances.serenbucks < Dollar)
          /\ (pc' = "Idle") =>
                /\ abort' = "balance"
                /\ trail' = {"BalanceCheck"}
                /\ calls' = NoCalls
                /\ NothingExecuted'
          /\ (pc' # "Idle") => (pc' = "StopLossCheck" /\ abort' = "none")]_vars

C8_Witness ==
    /\ pc = "Idle"
    /\ abort = "balance"
    /\ ~lookups.serenbucks.ok
    /\ lookups.polymarket.ok
    /\ lookups.polymarket.balance >= Dollar

\* C9 as stated: the stake is at least $1 and at most maxKelly * bankroll.
C9_SizerBounds ==
    result.set =>
        /\ result.value >= Dollar
        /\ result.value <= args.max_kelly_fraction * args.bankroll

\* C9 amended: the stake is at least $1 and at most the larger of $1 and
\* maxKelly * bankroll.
C9_SizerBoundsWithFloor ==
    result.set =>
        /\ result.value >= Dollar
        /\ result.value <= Max(Dollar, args.max_kelly_fraction * args.bankroll)

C9_Witness ==
    /\ result.set
    /\ result.value > Dollar
    /\ result.value = args.max_kelly_fraction * args.bankroll

\* C10: the stake is max($1, bankroll * min(|0.25 * (2p - 1)|, maxKelly)); at
\* p = 0.5 it is the $1 floor; it is the same for p and 1 - p.
C10_SizerFormula ==
    result.set =>
        LET quarter == IF 2 * args.p >= PD THEN 2 * args.p - PD ELSE PD - 2 * args.p
            capped == IF quarter <= args.max_kelly_fraction
                      THEN quarter ELSE args.max_kelly_fraction
            stake == IF args.bankroll * capped >= Dollar
                     THEN args.bankroll * capped ELSE Dollar
        IN  /\ result.value = stake
            /\ (2 * args.p = PD => result.value = Dollar)
            /\ result.value = calculate_position_size(PD - args.p,
                                  args.max_kelly_fraction, args.bankroll)

C10_Witness ==
    /\ result.set
    /\ 2 * args.p < PD
    /\ result.value > Dollar
    /\ result.value < args.max_kelly_fraction * args.bankroll

\* C11: every trade made for an accepted opportunity has the side that the
\* sign of its Kelly fraction 2p - 1 calls for: BUY when it is positive, SELL
\* when it is negative.
C11_KellySignMatchesSide ==
    \A i \in DOMAIN tradesLog :
        /\ FullKelly(tradesLog[i].fair_value) > 0 => tradesLog[i].side = "BUY"
        /\ FullKelly(tradesLog[i].fair_value) < 0 => tradesLog[i].side = "SELL"

\* An oracle answer that is a well-formed estimate: a JSON object with the
\* three required fields, a probability in [0, 1] and one of the three
\* confidence labels.
ValidEstimate(a) ==
    /\ a.kind = "json"
    /\ {"probability", "confidence", "reasoning"} \subseteq a.has
    /\ 0 <= a.probability /\ a.probability <= PD
    /\ a.confidence \in {"low", "medium", "high"}

\* The analysed market passes the filter.
Accepted(x) ==
    /\ ValidEstimate(x.answer)
    /\ x.answer.confidence # "low"
    /\ Abs(x.answer.probability - x.market.current_price) >= config.mispricing_threshold

AnalysisStep == pc = "Deciding" /\ mIdx' = mIdx + 1
DetectionEnds == pc = "Deciding" /\ pc' = "Executing"
AnalysedList == Take(markets, max_to_research)

C13_PerItemOracleFailure ==
    [][/\ (AnalysisStep /\ analysed'[1].research # ""
                        /\ ~ValidEstimate(analysed'[1].answer)) =>
            /\ opportunities' = opportunities
            /\ pc' = "Deciding"
            /\ abort' = "none"
       /\ DetectionEnds =>
            /\ calls.research = Len(AnalysedList)
            /\ abort' = "none"]_vars

\* The oracle has just answered a probability above 1 for the first market of
\* a list of two: nothing was collected and the second market is still to come.
C13_Witness ==
    /\ pc = "Deciding"
    /\ mIdx = 2
    /\ Len(AnalysedList) = 2
    /\ analysed # << >>
    /\ analysed[1].answer.kind = "json"
    /\ analysed[1].answer.probability > PD
    /\ opportunities = << >>

\* C14: when the scan returns no markets, and in particular when the scan
\* call fails, the cycle ends there with the no-markets outcome: no research
\* or oracle call was made, detection and execution are not entered and no
\* order is submitted.
C14_EmptyQuoteList ==
    [][/\ (pc = "Scanning" /\ scanned' = "failed") => markets' = << >>
       /\ (pc = "ScanTest" /\ markets = << >>) =>
            /\ pc' = "Idle"
            /\ abort' = "no_markets"
            /\ calls.research = 0 /\ calls.estimate = 0 /\ calls.gateway = 0
            /\ trail' \cap {"Deciding", "Executing"} = {}
            /\ NothingExecuted']_vars

C14_Witness ==
    /\ pc = "Idle"
    /\ abort = "no_markets"
    /\ scanned = "failed"

\* C15: a call that the rate limiter blocks waits for a bounded time (at most
\* the window), then returns, and its order is then submitted: the limiter
\* leads to the place_order call for the same trade and nothing else, and
\* the place_order call is made.
C15_BlockingNotDropping ==
    /\ [](pc = "Sleeping" =>
            (0 < wait_until - now /\ wait_until - now <= RATE_LIMIT_WINDOW))
    /\ [][pc = "Sleeping" => (pc' = "Submit" /\ oIdx' = oIdx /\ trade' = trade)]_vars
    /\ [][(pc = "Submit" /\ pc' # "Submit") =>
            Len(gatewayCalls') = Len(gatewayCalls) + 1]_vars
    /\ (pc = "Sleeping" ~> pc = "Submit")
    /\ (pc = "Submit" ~> pc = "Executing")

\* An order went to the gateway after its call had been blocked.
C15_Witness ==
    /\ pc = "Executing"
    /\ wait_until > 0
    /\ Len(gatewayCalls) > atStart.gateway
    /\ gatewayCalls[Len(gatewayCalls)] >= wait_until

\* The recorded timestamps that are inside the window at time t: those less
\* than RATE_LIMIT_WINDOW old.
RecordedInWindow(ts, t) == {i \in DOMAIN ts : ts[i] > t - RATE_LIMIT_WINDOW}

LimiterLetsThrough == pc # "Submit" /\ pc' = "Submit"

\* C16: a call made when MAX_ORDERS_PER_MINUTE recorded timestamps are inside
\* the window blocks, and whenever the limiter lets a call through fewer
\* than MAX_ORDERS_PER_MINUTE recorded timestamps remain inside the window.
C16_BlocksAtCap ==
    [][/\ (pc = "Executing" /\ pc' \in {"Sleeping", "Submit"}
            /\ Cardinality(RecordedInWindow(order_timestamps, now))
                  >= MAX_ORDERS_PER_MINUTE) => pc' = "Sleeping"
       /\ LimiterLetsThrough =>
            Cardinality(RecordedInWindow(order_timestamps', now'))
                < MAX_ORDERS_PER_MINUTE]_vars

\* C17: after the rate limiter has pruned, no recorded timestamp is as old as
\* the window or older: one exactly RATE_LIMIT_WINDOW old is removed too.
C17_InclusiveCutoff ==
    [][(pc \in {"Executing", "Sleeping"} /\ pc' \in {"Sleeping", "Submit"}) =>
          \A i \in DOMAIN order_timestamps' :
              order_timestamps'[i] > now' - RATE_LIMIT_WINDOW]_vars

LedgerCall(op) == ledgerOps' = ledgerOps + 1 /\ lastCall'.op = op

\* C18: add for a market_id that has a Position fails and leaves the
\* existing record unchanged; add for a market_id that has none creates a
\* Position with the given side, price and size, the current price equal to
\* the entry price and an unrealized P&L of 0.
C18_AddOnExistingKey ==
    [][LedgerCall("add") =>
          LET k == lastCall'.market_id
          IN  IF Has(tracker, k)
              THEN Has(tracker', k) /\ Get(tracker', k) = Get(tracker, k)
              ELSE /\ Has(tracker', k)
                   /\ Get(tracker', k).side = lastCall'.side
                   /\ Get(tracker', k).entry_price = lastCall'.entry_price
                   /\ Get(tracker', k).size = lastCall'.size
                   /\ Get(tracker', k).current_price = lastCall'.entry_price
                   /\ Get(tracker', k).unrealized_pnl = Zero]_vars

\* C19: when update_prices has gone through its price map, every position
\* named in it has the price of the map as its current price, and its
\* unrealized P&L is (current - entry) * size / entry for a BUY position and
\* (entry - current) * size / (1 - entry) for a SELL position (the fractions
\* are compared by cross-multiplication).
C19_PnlFormulas ==
    [][(LedgerCall("update") /\ lastCall'.outcome # "ZeroDivisionError") =>
          \A i \in DOMAIN lastCall'.prices :
              LET q == lastCall'.prices[i]
              IN  Has(tracker, q.market_id) =>
                    LET pos == Get(tracker', q.market_id)
                        pnl == pos.unrealized_pnl
                    IN  /\ pos.current_price = q.price
                        /\ pos.side = "BUY" =>
                              pnl.num * pos.entry_price
                                = (pos.current_price - pos.entry_price) * pos.size
                                    * pnl.den
                        /\ pos.side = "SELL" =>
                              pnl.num * (PD - pos.entry_price)
                                = (pos.entry_price - pos.current_price) * pos.size
                                    * pnl.den]_vars

\* The two examples: BUY at 0.40, size 100, price 0.60 has a P&L of 50, and
\* SELL at 0.70, size 100, price 0.50 has a P&L of 200/3, saved as 66.67.
C19_Witness ==
    /\ PD = 10
    /\ lastCall.op = "update" /\ lastCall.outcome = "ok"
    /\ Has(tracker, "m1") /\ Has(tracker, "m2")
    /\ Get(tracker, "m1").side = "BUY" /\ Get(tracker, "m1").entry_price = 4
    /\ Get(tracker, "m1").size = 100 /\ Get(tracker, "m1").current_price = 6
    /\ Get(tracker, "m1").unrealized_pnl = [num |-> 50, den |-> 1]
    /\ Get(tracker, "m2").side = "SELL" /\ Get(tracker, "m2").entry_price = 7
    /\ Get(tracker, "m2").size = 100 /\ Get(tracker, "m2").current_price = 5
    /\ Get(tracker, "m2").unrealized_pnl = [num |-> 200, den |-> 3]
    /\ Get(positionsFile.positions, "m2").unrealized_pnl = 6667

\* C20: whenever a tracker call has returned, normally or with an error, the
\* positions file holds the positions of the tracker, each as to_dict
\* writes it, and nothing else (no file: no positions).
C20_PersistenceConsistency ==
    IF positionsFile.exists
    THEN {positionsFile.positions[i] : i \in DOMAIN positionsFile.positions}
            = {to_dict(tracker[i]) : i \in DOMAIN tracker}
    ELSE tracker = << >>

\* The positions ps as they come back from a file: the same fields, the
\* P&L rounded to whole cents.
RoundedPnl(ps) ==
    [i \in DOMAIN ps |->
        [ps[i] EXCEPT !.unrealized_pnl = Fraction(Round2(ps[i].unrealized_pnl), 100)]]

\* C21: a save followed by a load gives back the saved positions, with the
\* same market ids and fields and the P&L rounded to 2 decimals; a load
\* gives the positions of the file, and saving and loading them once more
\* changes neither the file's positions nor the loaded positions.
C21_RoundTrip ==
    [][/\ (ledgerOps' = ledgerOps + 1 /\ lastCall'.op \in {"add", "remove", "update"}
              /\ positionsFile' # positionsFile) =>
            LET back == LoadAll(positionsFile'.positions, << >>)
            IN  /\ ~back.raised
                /\ back.positions = RoundedPnl(tracker')
       /\ (LedgerCall("load") /\ lastCall'.outcome = "ok") =>
            /\ Len(tracker') = Len(positionsFile.positions)
            /\ \A i \in DOMAIN tracker' :
                  to_dict(tracker'[i]) = positionsFile.positions[i]
            /\ TrackerFile(tracker').positions = positionsFile.positions
            /\ LoadAll(TrackerFile(tracker').positions, << >>)
                  = [raised |-> FALSE, positions |-> tracker']]_vars

\* A SELL position whose P&L of 200/3 was saved as 66.67 has been loaded back.
C21_Witness ==
    /\ lastCall.op = "load" /\ lastCall.outcome = "ok"
    /\ Has(tracker, "m2")
    /\ Get(tracker, "m2").side = "SELL"
    /\ Get(tracker, "m2").current_price = 5
    /\ Get(tracker, "m2").unrealized_pnl = [num |-> 6667, den |-> 100]

\* C29: remove(market_id) for an id that has a Position takes exactly that
\* Position out and, when it returns, returns it; every other Position stays
\* as it was. remove for an id that has none changes neither the positions
\* in memory nor the positions file, and returns None.
C29_RemoveFrame ==
    [][LedgerCall("remove") =>
          LET k == lastCall'.market_id
          IN  IF Has(tracker, k)
              THEN /\ ~Has(tracker', k)
                   /\ Len(tracker') = Len(tracker) - 1
                   /\ \A i \in DOMAIN tracker :
                         tracker[i].market_id # k =>
                            /\ Has(tracker', tracker[i].market_id)
                            /\ Get(tracker', tracker[i].market_id) = tracker[i]
                   /\ lastCall'.outcome = "ok" => lastCall'.returned = Get(tracker, k)
              ELSE /\ tracker' = tracker
                   /\ positionsFile' = positionsFile
                   /\ lastCall'.returned = None]_vars

\* The second of two positions was removed and returned; the first is left.
C29_Witness ==
    /\ lastCall.op = "remove" /\ lastCall.outcome = "ok"
    /\ lastCall.market_id = "m2"
    /\ lastCall.returned # None
    /\ lastCall.returned.market_id = "m2"
    /\ Len(tracker) = 1
    /\ Has(tracker, "m1")

\* The sum of the P&L of ps[1..n] over the common denominator d, and the
\* sum of the sizes of ps[1..n].
RECURSIVE CommonDen(_, _)
CommonDen(ps, n) == IF n = 0 THEN 1 ELSE ps[n].unrealized_pnl.den * CommonDen(ps, n - 1)
RECURSIVE PnlOver(_, _, _)
PnlOver(ps, n, d) ==
    IF n = 0 THEN 0
    ELSE ps[n].unrealized_pnl.num * (d \div ps[n].unrealized_pnl.den) + PnlOver(ps, n - 1, d)
RECURSIVE SizesUpTo(_, _)
SizesUpTo(ps, n) == IF n = 0 THEN 0 ELSE ps[n].size + SizesUpTo(ps, n - 1)

\* C30: in every ledger state and for every initial bankroll, the total
\* unrealized P&L is the sum of the positions' P&L, the total deployed is the
\* sum of their sizes, the current bankroll is the initial bankroll plus the
\* total P&L and the available capital is the current bankroll minus the
\* total deployed (fractions compared by cross-multiplication); with no
\* positions they are 0, 0, the initial bankroll and the initial bankroll;
\* and each getter returns its aggregate.
C30_Aggregates ==
    LET d == CommonDen(tracker, Len(tracker))
        pnl == PnlOver(tracker, Len(tracker), d)
        sizes == SizesUpTo(tracker, Len(tracker))
        total == get_total_unrealized_pnl(tracker)
        deployed == get_total_deployed(tracker)
    IN  /\ total.num * d = pnl * total.den
        /\ deployed = sizes
        /\ \A b \in LedgerBankrolls :
              LET current == get_current_bankroll(tracker, b)
                  available == get_available_capital(tracker, b)
              IN  /\ current.num * d = (b * d + pnl) * current.den
                  /\ available.num * d = (b * d + pnl - sizes * d) * available.den
                  /\ tracker = << >> =>
                        /\ total = Zero /\ deployed = 0
                        /\ current = Fraction(b, 1) /\ available = Fraction(b, 1)
                  /\ (lastCall.op = "get_current_bankroll" /\ lastCall.initial_bankroll = b)
                        => lastCall.returned = current
                  /\ (lastCall.op = "get_available_capital" /\ lastCall.initial_bankroll = b)
                        => lastCall.returned = available
        /\ lastCall.op = "get_total_unrealized_pnl" => lastCall.returned = total
        /\ lastCall.op = "get_total_deployed" => lastCall.returned = deployed

\* BUY at 0.40 now at 0.60 (P&L 50) and SELL at 0.70 now at 0.50 (P&L 200/3),
\* 100 each, initial bankroll 250: the available capital read is 500/3.
C30_Witness ==
    /\ PD = 10
    /\ lastCall.op = "get_available_capital"
    /\ lastCall.initial_bankroll = 250
    /\ Len(tracker) = 2
    /\ get_total_unrealized_pnl(tracker) = [num |-> 350, den |-> 3]
    /\ lastCall.returned = [num |-> 500, den |-> 3]

\* The place_order call for the current opportunity has returned or raised.
GatewayAnswered == pc = "Submit" /\ pc' = "Executing"

\* C23: every opportunity sent to the gateway adds exactly one record to the
\* trade log, whether the submission succeeds or fails, and a position is
\* registered when and only when it succeeds.
C23_TradeRecordPerAttempt ==
    [][GatewayAnswered =>
          /\ Len(tradesLog') = Len(tradesLog) + 1
          /\ tradesLog'[Len(tradesLog')].market_id = trade.market_id
          /\ IF answered' = "ok"
             THEN Len(positions') = Len(positions) + 1
             ELSE positions' = positions]_vars

\* The trades the running cycle has logged so far.
CycleTrades == SubSeq(tradesLog, atStart.trades + 1, Len(tradesLog))

\* C24: in a live cycle a failed submission creates no position (the
\* positions in hand are those loaded plus one per trade the cycle logged,
\* in that order), the loop goes on (after each answer exactly the
\* opportunities before oIdx have been sent, a failed one included), every
\* selected opportunity has been sent when the loop ends, and the cycle has
\* not raised.
C24_ExecutionErrorsIsolated ==
    (~dry_run /\ pc \in {"Executing", "Sleeping", "Submit", "Reporting"}) =>
        /\ positions = atStart.file.positions
                          \o [i \in DOMAIN CycleTrades |-> NewPosition(CycleTrades[i])]
        /\ Len(CycleTrades) = trades_executed
        /\ calls.gateway = oIdx - 1
        /\ oIdx <= Len(Selected) + 1
        /\ (pc = "Reporting" => calls.gateway = Len(Selected))
        /\ abort = "none"

\* The first of two submissions failed and the second was made and accepted:
\* one position, that of the second market.
C24_Witness ==
    /\ ~dry_run
    /\ pc = "Reporting"
    /\ calls.gateway = 2
    /\ trades_executed = 1
    /\ Len(positions) = 1
    /\ positions[1].market_id = Selected[2].market.id
    /\ Selected[1].market.id # Selected[2].market.id

\* min(k, max_positions - open count), k the number of opportunities found.
Quota == Min(Len(opportunities), config.max_positions - Len(atStart.file.positions))

\* The attempts of the running cycle: place_order calls of a live trader,
\* simulated trades of a dry run.
Attempts == IF dry_run THEN Len(CycleTrades) ELSE calls.gateway

\* C27: the attempts of a cycle are the first min(k, max_positions - open
\* count) opportunities in detection order: the i-th attempt is for the
\* i-th opportunity found (the trade being placed is the one built from it,
\* its timestamp aside, which is taken before a rate-limit sleep), after each
\* attempt exactly the opportunities before oIdx have been attempted, whether
\* they succeeded or not, never more than the quota, and exactly the quota
\* when the loop has ended.
C27_FirstFoundSelection ==
    pc \in {"Executing", "Sleeping", "Submit", "Reporting"} =>
        /\ Attempts = oIdx - 1
        /\ Attempts <= Quota
        /\ pc \in {"Sleeping", "Submit"} =>
              /\ oIdx <= Quota
              /\ [trade EXCEPT !.timestamp = now] = NewTrade(opportunities[oIdx])
        /\ dry_run =>
              \A i \in DOMAIN CycleTrades :
                  /\ CycleTrades[i].market_id = opportunities[i].market.id
                  /\ CycleTrades[i].fair_value = opportunities[i].fair_value
        /\ pc = "Reporting" => Attempts = Quota

\* Two opportunities were found with room for one position: the first was
\* attempted and failed, and the second was not attempted.
C27_Witness ==
    /\ ~dry_run
    /\ pc = "Reporting"
    /\ Len(opportunities) = 2
    /\ Quota = 1
    /\ calls.gateway = 1
    /\ trades_executed = 0

\* C22: a position set that the trader persisted at the end of a cycle is
\* loaded by the tracker as the same positions: the same market ids and, for
\* each, the same market, side, entry price, current price, size, P&L and
\* opening time; the tracker does not come back empty.
C22_StableFormatAcrossWriters ==
    [][(LedgerCall("load") /\ positionsFile.exists /\ lastCall'.outcome # "raises") =>
          /\ tracker' # << >>
          /\ {tracker'[i].market_id : i \in DOMAIN tracker'}
                = {positionsFile.positions[i].market_id : i \in DOMAIN positionsFile.positions}
          /\ \A i \in DOMAIN positionsFile.positions :
                LET d == positionsFile.positions[i]
                    pos == Get(tracker', d.market_id)
                IN  /\ pos.market = d.market
                    /\ pos.side = d.side
                    /\ pos.entry_price = d.entry_price
                    /\ pos.current_price = d.current_price
                    /\ pos.size = d.size
                    /\ Round2(pos.unrealized_pnl) = d.unrealized_pnl
                    /\ pos.opened_at = d.opened_at]_vars

\* The trades of the log that were submitted to the gateway and accepted.
SubmittedTrades == {i \in DOMAIN tradesLog : ~tradesLog[i].dry_run}

\* C25: wherever a cycle stops (it returned, or it ended with the exception
\* of a failed save), the number of submitted trades in the trade log and
\* the number of persisted positions differ by at most one.
C25_LedgerAndLogInStep ==
    pc \in {"Idle", "Raised"} =>
        Abs(Cardinality(SubmittedTrades) - Len(positionsFile.positions)) <= 1

\* C26: a load of the position set that fails gives the cycle an empty
\* position set and the cycle goes on; the save of a cycle whose load failed
\* keeps every position that was in the file; and a save that fails does not
\* end the cycle, which goes on to Reporting.
C26_PersistenceErrors ==
    [][/\ (pc = "CapacityCheck" /\ loaded' = "failed") =>
            (positions' = << >> /\ pc' = "Scanning")
       /\ (pc = "Executing" /\ pc' = "Reporting" /\ loaded = "failed") =>
            \A i \in DOMAIN positionsFile.positions :
                \E j \in DOMAIN positionsFile'.positions :
                    positionsFile'.positions[j] = positionsFile.positions[i]
       /\ (pc = "Executing" /\ pc' \notin {"Executing", "Sleeping", "Submit"}) =>
            pc' = "Reporting"]_vars

\* config.json is missing, or lacks one of the six required fields.
ConfigIncomplete ==
    \/ ~configFile.exists
    \/ \E field \in {"bankroll", "mispricing_threshold", "max_kelly_fraction",
                     "scan_interval_minutes", "max_positions", "stop_loss_bankroll"} :
          field \notin DOMAIN configFile.json

\* C28: with config.json missing or lacking a required field, main gets no
\* trader (it is about to construct it, or has exited with code 1) and no
\* cycle runs: no balance lookup, no scan, research or estimate call, no
\* order, and nothing written to the trade log, the scan log or the
\* positions file.
C28_ConfigFailFast ==
    ConfigIncomplete =>
        /\ pc \in {"Main", "Exit1"}
        /\ config = NoConfig
        /\ cycles = 0
        /\ trail = {}
        /\ lookups = NoLookups /\ balances = NoBalances
        /\ calls = NoCalls
        /\ gatewayCalls = << >>
        /\ tradesLog = << >> /\ scanLog = << >> /\ positionsFile = NoFile

\* main has exited with code 1 on a document that lacks only
\* stop_loss_bankroll, with SEREN_API_KEY set.
C28_Witness ==
    /\ pc = "Exit1"
    /\ SEREN_API_KEY
    /\ configFile.exists
    /\ DOMAIN configFile.json = {"bankroll", "mispricing_threshold", "max_kelly_fraction",
                                 "scan_interval_minutes", "max_positions"}

\* C31: the trade log is append-only: every step leaves the records already
\* in trades.jsonl in place, unmodified and in the same order, and adds zero
\* or more records after them.
C31_TradeLogAppendOnly ==
    [][/\ Len(tradesLog') >= Len(tradesLog)
       /\ SubSeq(tradesLog', 1, Len(tradesLog)) = tradesLog]_vars

\* The second cycle has appended a record to the records of the first.
C31_Witness ==
    /\ cycles = 2
    /\ atStart.trades >= 1
    /\ Len(tradesLog) > atStart.trades

\* A cycle of the second trader has been in flight at some moment of the
\* running cycle of the first: it is in flight now, or it took a step since
\* the running cycle started.
Overlapped == other.pc # "Idle" \/ other.saw = cycles

\* One position per order the gateway accepted in the running cycle.
Successes ==
    [i \in 1 .. (Len(tradesLog) - atStart.trades) |->
        NewPosition(tradesLog[atStart.trades + i])]

\* C32: with no cycle of another process in flight during it, a live cycle
\* with at least one accepted order ends with the positions file holding
\* exactly the positions that were in it at cycle start followed by one
\* position per accepted order. (A cycle that overlaps another one can lose
\* a position: C32_Witness.)
C32_SerializedCyclesKeepPositions ==
    (pc = "Reporting" /\ ~dry_run /\ trades_executed > 0 /\ ~Overlapped) =>
        /\ Len(Successes) = trades_executed
        /\ positionsFile.positions = atStart.file.positions \o Successes

\* The first cycle of the trader overlapped the cycle of the second trader,
\* and a position an accepted order had registered was lost when the later
\* save overwrote the file: the file now holds fewer positions than orders
\* were accepted. The second cycle of the trader ran on its own, and ends
\* with what it loaded and what it added.
C32_Witness ==
    /\ pc = "Reporting"
    /\ cycles = 2
    /\ ~Overlapped
    /\ other.cycles = 1
    /\ trades_executed > 0
    /\ atStart.file.exists
    /\ Len(atStart.file.positions) < atStart.trades
    /\ Len(positionsFile.positions) < Len(tradesLog)

\* C33: find_opportunities goes through at most the first max_to_research
\* markets of the list, in list order, with one research call each and at
\* most one estimate call each, makes no estimate call for a market whose
\* research came back empty, and changes neither the positions (file and
\* list), nor the trade log, nor the rate limiter's timestamps.
C33_DetectionCapAndPurity ==
    [][pc = "Deciding" =>
          /\ UNCHANGED << positionsFile, positions, tradesLog, order_timestamps >>
          /\ calls'.research <= max_to_research
          /\ calls'.estimate <= calls'.research
          /\ mIdx' # mIdx =>
                /\ mIdx <= max_to_research
                /\ analysed'[1].market = markets[mIdx]
                /\ calls'.research = calls.research + 1
                /\ calls'.estimate \in {calls.estimate, calls.estimate + 1}
                /\ analysed'[1].research = "" => calls'.estimate = calls.estimate]_vars

\* Three markets were listed: the first two were researched, one research
\* came back empty, and the third market was not looked at.
C33_Witness ==
    /\ pc = "Executing"
    /\ Len(markets) = max_to_research + 1
    /\ calls.research = max_to_research
    /\ calls.estimate = max_to_research - 1

IsSorted(ts) == \A i, j \in DOMAIN ts : i <= j => ts[i] <= ts[j]
Unexpired(ts, cutoff) == SelectSeq(ts, LAMBDA t : t >= cutoff)

C35_UpdatePricesFrame ==
    [][LedgerCall("update") =>
          LET prices == lastCall'.prices
              ids == {prices[i].market_id : i \in DOMAIN prices}
          IN  /\ Len(tracker') = Len(tracker)
              /\ \A i \in DOMAIN tracker :
                    /\ tracker'[i].market_id = tracker[i].market_id
                    /\ tracker'[i].market = tracker[i].market
                    /\ tracker'[i].token_id = tracker[i].token_id
                    /\ tracker'[i].side = tracker[i].side
                    /\ tracker'[i].entry_price = tracker[i].entry_price
                    /\ tracker'[i].size = tracker[i].size
                    /\ tracker'[i].opened_at = tracker[i].opened_at
                    /\ tracker[i].market_id \notin ids => tracker'[i] = tracker[i]]_vars

\* Of two positions the one named in the price map was repriced, the other
\* was left at its entry price.
C35_Witness ==
    /\ lastCall.op = "update" /\ lastCall.outcome = "ok"
    /\ lastCall.prices = << Quote("m1", 6) >>
    /\ Len(tracker) = 2
    /\ Has(tracker, "m1") /\ Has(tracker, "m2")
    /\ Get(tracker, "m1").current_price = 6
    /\ Get(tracker, "m1").current_price # Get(tracker, "m1").entry_price
    /\ Get(tracker, "m1").unrealized_pnl # Zero
    /\ Get(tracker, "m2").current_price = Get(tracker, "m2").entry_price

\* C36: the positions file, which starts with no position and is written
\* only by the cycles of the trader, never holds more than max_positions
\* positions.
C36_PositionCountCap ==
    Len(positionsFile.positions) <= config.max_positions

\* A live cycle found more opportunities than there was room for, took only
\* the first ones, and has saved a file that is exactly full.
C36_Witness ==
    /\ pc = "Reporting"
    /\ ~dry_run
    /\ trades_executed > 0
    /\ Len(opportunities) > Len(Selected)
    /\ positionsFile.exists
    /\ Len(positionsFile.positions) = config.max_positions

\* C37: a dry-run trader never calls the gateway, never enters the rate
\* limiter and records no timestamp, and never writes the positions file.
\* Every record it logs has status 'simulated'; the records of the running
\* cycle are one per selected opportunity taken so far, in order, each
\* counted in trades_executed; and the scan_result line of a cycle that
\* reported carries that count.
C37_DryRunIsolation ==
    dry_run =>
        /\ gatewayCalls = << >>
        /\ calls.gateway = 0
        /\ order_timestamps = << >>
        /\ pc \notin {"Sleeping", "Submit"}
        /\ positionsFile = NoFile
        /\ \A i \in DOMAIN tradesLog :
              tradesLog[i].status = "simulated" /\ tradesLog[i].dry_run
        /\ pc \in {"Executing", "Reporting"} =>
              /\ trades_executed = Len(CycleTrades)
              /\ Len(CycleTrades) = oIdx - 1
              /\ \A i \in DOMAIN CycleTrades :
                    CycleTrades[i].market_id = Selected[i].market.id
        /\ pc = "Reporting" => trades_executed = Len(Selected)
        /\ (pc = "Idle" /\ "Reporting" \in trail) =>
              scanLog[Len(scanLog)].trades_executed = Len(CycleTrades)

\* A dry-run cycle has simulated two trades and has written its summary.
C37_Witness ==
    /\ dry_run
    /\ pc = "Idle"
    /\ "Reporting" \in trail
    /\ Len(CycleTrades) = 2
    /\ scanLog[Len(scanLog)].trades_executed = 2
    /\ scanLog[Len(scanLog)].opportunities_found = 2

\* C38: a timestamp is recorded exactly when the gateway accepted a
\* submission (it is the time of the acceptance, added at the end; a failed
\* submission and every other step add none), and the number of recorded
\* timestamps never exceeds MAX_ORDERS_PER_MINUTE.
C38_RateLimiterBookkeeping ==
    [][/\ (pc = "Submit" /\ answered' = "ok") =>
              order_timestamps' = Append(order_timestamps, now)
       /\ ~(pc = "Submit" /\ answered' = "ok") =>
              Len(order_timestamps') <= Len(order_timestamps)
       /\ Len(order_timestamps') <= MAX_ORDERS_PER_MINUTE]_vars

\* C39: as long as no order of the running cycle has been accepted (a dry
\* run, a cycle that a guard ended, a cycle that found nothing, a cycle whose
\* submissions all failed), the positions file is what it was when the
\* cycle started: its existence, its positions and its last_updated stamp.
C39_NoTradeCycleLeavesFile ==
    (dry_run \/ Len(CycleTrades) = 0) => positionsFile = atStart.file

\* The second cycle of a live trader submitted orders, later than the file
\* was written, and all of them failed: the file still carries the positions
\* and the stamp of the first cycle.
C39_Witness ==
    /\ ~dry_run
    /\ pc = "Reporting"
    /\ cycles = 2
    /\ calls.gateway >= 1
    /\ Len(CycleTrades) = 0
    /\ positionsFile.exists
    /\ positionsFile.positions # << >>
    /\ positionsFile.last_updated < now

\* The query with its i-th '?' replaced by the text of the i-th parameter,
\* from parameter k on; a '?' beyond the parameters is left.
RECURSIVE Positional(_, _, _)
Positional(query, params, k) ==
    IF query = << >> THEN << >>
    ELSE IF Head(query) = "?" /\ k <= Len(params)
         THEN SqlText(params[k]) \o Positional(Tail(query), params, k + 1)
         ELSE << Head(query) >> \o Positional(Tail(query), params, k)

Placeholders(query) == Cardinality({i \in DOMAIN query : query[i] = "?"})

\* C40: for a query with as many '?' as there are parameters, the query
\* _execute_sql posts is the original query with its i-th '?' replaced by
\* the text of the i-th parameter (the quoted string with its quotes
\* doubled, NULL, or the number), whatever the parameters hold.
C40_PositionalSubstitution ==
    (/\ result.set
     /\ ~result.value.raised
     /\ Placeholders(args.query) = Len(args.params)) =>
        result.value.query = Positional(args.query, args.params, 1)

====
